---- MODULE Spec2Model ----
(* Model of the syllAbuIld.ai backend (Express handlers that call the      *)
(* OpenAI Responses API) as a state machine.  Text is a sequence of        *)
(* tokens; JSON values are records tagged by "kind".                       *)
EXTENDS Integers, Sequences, FiniteSets, TLC

\* ------------------------------------------------------------------
\* Bounds
\* ------------------------------------------------------------------
\* number of requests that can be in flight at the same time
MaxInFlight == 1

Slots == 1..MaxInFlight

\* ------------------------------------------------------------------
\* JSON values
\* ------------------------------------------------------------------
Undefined == [kind |-> "undefined"]
Null == [kind |-> "null"]
Num(n) == [kind |-> "num", n |-> n]
Str(s) == [kind |-> "str", s |-> s]
\* a caller-supplied text: the first len characters of the document id
Text(id, len) == [kind |-> "text", id |-> id, len |-> len]
Arr(items) == [kind |-> "arr", items |-> items]
Obj(members) == [kind |-> "obj", members |-> members]
Mem(k, v) == [k |-> k, v |-> v]

IsString(v) == v.kind \in {"str", "text"}

\* JavaScript truthiness: undefined, null, "" and 0 are falsy
Truthy(v) ==
  CASE v.kind \in {"undefined", "null"} -> FALSE
    [] v.kind = "str" -> v.s # ""
    [] v.kind = "text" -> v.len > 0
    [] v.kind = "num" -> v.n # 0
    [] OTHER -> TRUE

\* a || b
Or(a, b) == IF Truthy(a) THEN a ELSE b

\* a ?? b
Nullish(a, b) == IF a.kind \in {"undefined", "null"} THEN b ELSE a

HasKey(o, key) == \E i \in 1..Len(o.members) : o.members[i].k = key

\* property read o.key / o?.key on a non-nullish value: a missing property,
\* or any property of a number, string or array used here, is undefined
Get(o, key) ==
  IF o.kind = "obj" /\ HasKey(o, key)
  THEN o.members[CHOOSE i \in 1..Len(o.members) : o.members[i].k = key].v
  ELSE Undefined

\* o?.key
OptGet(o, key) == IF o.kind \in {"undefined", "null"} THEN Undefined ELSE Get(o, key)

\* members after o.key = v: an existing key keeps its position, a new key is
\* appended (JavaScript property order)
SetMember(members, key, v) ==
  IF \E i \in 1..Len(members) : members[i].k = key
  THEN [i \in 1..Len(members) |->
          IF members[i].k = key THEN Mem(key, v) ELSE members[i]]
  ELSE Append(members, Mem(key, v))

\* ------------------------------------------------------------------
\* Results of computations that can throw
\* ------------------------------------------------------------------
\* an error message; echo holds the tokens of model output it quotes
Err(msg, echo) == [msg |-> msg, echo |-> echo]
Ok(v) == [ok |-> TRUE, v |-> v]
Throw(e) == [ok |-> FALSE, e |-> e]

MissingKeyMsg == "Missing OPENAI_API_KEY. Set it in backend/.env (or hosting env vars)."
NotValidJsonMsg == "Model output was not valid JSON."

\* ------------------------------------------------------------------
\* Model output text and the course data it encodes
\* ------------------------------------------------------------------
LessonA ==
  Obj(<<Mem("id", Str("u1l1")), Mem("title", Str("Lesson A")),
        Mem("content", Str("lesson body")),
        Mem("keyPoints", Arr(<<Str("kp")>>))>>)

UnitA ==
  Obj(<<Mem("id", Str("u1")), Mem("title", Str("Unit 1: Title")),
        Mem("description", Str("unit description")),
        Mem("lessons", Arr(<<LessonA>>))>>)

\* a unit the model returned without lessons
UnitB == Obj(<<Mem("id", Str("u2")), Mem("title", Str("Unit 2: Title"))>>)

QuestionA ==
  Obj(<<Mem("id", Str("q1")), Mem("question", Str("question 1")),
        Mem("options", Arr(<<Str("a"), Str("b"), Str("c"), Str("d")>>)),
        Mem("correctAnswer", Num(2)), Mem("explanation", Str("why"))>>)

QuestionB ==
  Obj(<<Mem("id", Str("q9")), Mem("question", Str("question 9")),
        Mem("options", Arr(<<Str("w"), Str("x")>>)),
        Mem("correctAnswer", Num(7))>>)

\* member tokens: each stands for one "key": value pair of an object literal
\* (with its separating comma), the value being balanced JSON text
MemberToks == {"T", "U", "U0", "Un", "Ux", "F", "Fb", "Fx", "X"}

Member(tok) ==
  CASE tok = "T" -> Mem("courseTitle", Str("Algebra"))
    [] tok = "U" -> Mem("units", Arr(<<UnitA, UnitB>>))
    [] tok = "U0" -> Mem("units", Arr(<<>>))
    [] tok = "Un" -> Mem("units", Arr(<<Null>>))
    [] tok = "Ux" -> Mem("units", Num(5))
    [] tok = "F" -> Mem("finalTest", Obj(<<Mem("questions", Arr(<<QuestionA>>))>>))
    [] tok = "Fb" -> Mem("finalTest", Obj(<<Mem("questions", Arr(<<QuestionB>>))>>))
    [] tok = "Fx" -> Mem("finalTest", Num(5))
    [] tok = "X" -> Mem("note", Str("extra"))

\* tokens of a text: braces, whitespace " ", prose "p" (any character that
\* JSON does not allow there), the literals null, 5 and [], and member tokens
LiteralToks == {"null", "5", "[]"}
Tokens == {"{", "}", " ", "p"} \cup LiteralToks \cup MemberToks

Literal(tok) ==
  CASE tok = "null" -> Null
    [] tok = "5" -> Num(5)
    [] tok = "[]" -> Arr(<<>>)

NonWs(text) == SelectSeq(text, LAMBDA t : t # " ")

\* String.prototype.trim() leaves a non-empty string
TrimNonEmpty(text) == NonWs(text) # <<>>

\* ------------------------------------------------------------------
\* JSON.parse and JSON.stringify on token text
\* ------------------------------------------------------------------
UnexpectedEndMsg == "Unexpected end of JSON input"
UnexpectedTokenMsg == "Unexpected token in JSON"

\* the engine's SyntaxError message quotes the offending token of the input
SyntaxErr(tok) == Err(UnexpectedTokenMsg, <<tok>>)

\* members of an object literal: a repeated key keeps its first position and
\* takes its last value
RECURSIVE MembersOf(_)
MembersOf(toks) ==
  IF toks = <<>> THEN <<>>
  ELSE LET m == Member(toks[Len(toks)])
       IN SetMember(MembersOf(SubSeq(toks, 1, Len(toks) - 1)), m.k, m.v)

\* index of the first token after the opening brace that is not a member
FirstNonMember(t) ==
  IF \E i \in 2..Len(t) : t[i] \notin MemberToks
  THEN CHOOSE i \in 2..Len(t) :
         /\ t[i] \notin MemberToks
         /\ \A j \in 2..(i - 1) : t[j] \in MemberToks
  ELSE Len(t) + 1

JsonParse(text) ==
  LET t == NonWs(text)
      n == Len(t)
  IN IF n = 0 THEN Throw(Err(UnexpectedEndMsg, <<>>))
     ELSE IF t[1] \in LiteralToks
     THEN IF n = 1 THEN Ok(Literal(t[1])) ELSE Throw(SyntaxErr(t[2]))
     ELSE IF t[1] = "{"
     THEN LET i == FirstNonMember(t)
          IN IF i > n THEN Throw(Err(UnexpectedEndMsg, <<>>))
             ELSE IF t[i] # "}" THEN Throw(SyntaxErr(t[i]))
             ELSE IF i < n THEN Throw(SyntaxErr(t[i + 1]))
             ELSE Ok(Obj(MembersOf(SubSeq(t, 2, n - 1))))
     ELSE Throw(SyntaxErr(t[1]))

TokOf(m) == CHOOSE tok \in MemberToks : Member(tok) = m

RECURSIVE MemberText(_)
MemberText(members) ==
  IF members = <<>> THEN <<>>
  ELSE LET m == Head(members)
       IN (IF m.v.kind = "undefined" THEN <<>> ELSE <<TokOf(m)>>)
            \o MemberText(Tail(members))

\* JSON.stringify(v) for the values a handler serializes: members whose value
\* is undefined are left out; own properties of an array are not serialized
JsonStringify(v) ==
  CASE v.kind = "null" -> <<"null">>
    [] v.kind = "num" -> <<"5">>
    [] v.kind = "arr" -> <<"[]">>
    [] v.kind = "obj" -> <<"{">> \o MemberText(v.members) \o <<"}">>

\* ------------------------------------------------------------------
\* extractText
\* ------------------------------------------------------------------
TextBlock(text) == [type |-> "output_text", text |-> text]
MessageItem(content) == [type |-> "message", content |-> content]
OtherItem == [type |-> "reasoning"]
\* response envelope; an absent output_text is the empty text, an absent
\* output the empty list
Envelope(output_text, output) == [output_text |-> output_text, output |-> output]

RECURSIVE JoinBlocks(_)
JoinBlocks(content) ==
  IF content = <<>> THEN <<>>
  ELSE (IF Head(content).type = "output_text" THEN Head(content).text ELSE <<>>)
         \o JoinBlocks(Tail(content))

RECURSIVE JoinItems(_)
JoinItems(output) ==
  IF output = <<>> THEN <<>>
  ELSE LET item == Head(output)
       IN (CASE item.type = "message" -> JoinBlocks(item.content)
             [] item.type = "output_text" -> item.text
             [] OTHER -> <<>>)
            \o JoinItems(Tail(output))

extractText(data) ==
  IF TrimNonEmpty(data.output_text) THEN data.output_text
  ELSE JoinItems(data.output)

\* ------------------------------------------------------------------
\* safeParseJson
\* ------------------------------------------------------------------
HasBraceSpan(text) ==
  \E i, j \in 1..Len(text) : i < j /\ text[i] = "{" /\ text[j] = "}"

\* a non-greedy match: from the first "{" to the first "}" after it
BraceSpanNonGreedy(text) ==
  LET i == CHOOSE a \in 1..Len(text) :
             text[a] = "{" /\ \A b \in 1..(a - 1) : text[b] # "{"
      j == CHOOSE a \in (i + 1)..Len(text) :
             text[a] = "}" /\ \A b \in (i + 1)..(a - 1) : text[b] # "}"
  IN SubSeq(text, i, j)

\* raw.match(/\{[\s\S]*\}/)[0]: from the first "{" to the last "}"
BraceSpan(text) ==
  LET i == CHOOSE a \in 1..Len(text) :
             text[a] = "{" /\ \A b \in 1..(a - 1) : text[b] # "{"
      j == CHOOSE a \in 1..Len(text) :
             text[a] = "}" /\ \A b \in (a + 1)..Len(text) : text[b] # "}"
  IN SubSeq(text, i, j)

safeParseJson(raw) ==
  LET strict == JsonParse(raw)
  IN IF strict.ok THEN strict
     ELSE IF ~HasBraceSpan(raw) THEN Throw(Err(NotValidJsonMsg, <<>>))
     ELSE JsonParse(BraceSpan(raw))

\* ------------------------------------------------------------------
\* Configuration and program constants
\* ------------------------------------------------------------------
OPENAI_URL == "https://api.openai.com/v1/responses"
OPENAI_MODEL == Str("gpt-4.1")
OPENAI_VISION_MODEL == Str("gpt-4.1-mini")
MaxPromptChars == 24000
OcrMaxTokens == 4000
CourseMaxTokens == 12000
QuizMaxTokens == 5000
AnalysisMaxTokens == 900
FocusedMaxTokens == 15000
DefaultMinWords == 300
DefaultQuizCount == 20
DefaultFocusedQuizCount == 18
DefaultOcrInstruction ==
  Str("OCR this image and extract ALL visible text verbatim. Return only raw text.")

\* ------------------------------------------------------------------
\* State
\* ------------------------------------------------------------------
VARIABLES
  apiKey,     \* OPENAI_API_KEY is configured
  pc,         \* per request: the await the handler is suspended at
  route,      \* per request: the endpoint it was posted to
  body,       \* per request: req.body
  calls,      \* per request: the fetches issued to OPENAI_URL, in order
  d1,         \* generate-course: the pass-1 response envelope
  courseObj,  \* generate-course: the parsed pass-1 output
  d2,         \* generate-course: the pass-2 response envelope
  res         \* per request: the responses sent, in order

serverVars == <<apiKey, pc, route, body, calls, d1, courseObj, d2, res>>

\* the lenient JSON extractors applied to one text
VARIABLES
  raw,           \* the text given to the extractors
  serverParsed,  \* what safeParseJson(raw) returned or threw
  clientParsed   \* what parseJSONLoosely(raw) returned or threw

parseVars == <<raw, serverParsed, clientParsed>>

\* normalizeCourseJSON applied to one parsed value, then to its own result
VARIABLES
  nParsed,     \* the parsed JSON value given to normalizeCourseJSON
  nTarget,     \* the quizCountTarget of the request that produced it
  nOut,        \* what normalizeCourseJSON(nParsed) returned or threw
  nArgAfter,   \* the argument object as that call left it
  nAgain       \* what normalizeCourseJSON of the returned course returned

normVars == <<nParsed, nTarget, nOut, nArgAfter, nAgain>>

\* the client application (React state of App and its pending handlers)
VARIABLES
  user,         \* the signed-in user's email, or "none"
  allCourses,   \* saved courses by email
  course,       \* the current course, or Null
  page,         \* the page shown
  file,         \* extension of the chosen file, or "none"
  etxt,         \* text extracted from the file
  extracting,   \* busy flag of handleFile
  hPending,     \* extensions of the files whose local extraction is awaited
  generating,   \* busy flag of generate
  remediating,  \* busy flag of generateFocusedCourse
  gStatus,      \* status line
  gErr,         \* error line
  session,      \* position in the course and state of its test
  lastWrong,    \* wrong answers of the last submitted test
  now,          \* Date.now()
  genPc,        \* where the pending generate() is suspended
  genCtx,       \* what that call captured and computed so far
  focPc,        \* where the pending generateFocusedCourse() is suspended
  focCtx,       \* what that call captured
  analyzing,    \* busy flag of the analysis started by submitTest
  aPending      \* what each pending submitTest() captured, oldest first

clientVars ==
  <<user, allCourses, course, page, file, etxt, extracting, hPending, generating,
    remediating, gStatus, gErr, session, lastWrong, now, genPc, genCtx, focPc, focCtx,
    analyzing, aPending>>

\* state outside the request handlers
otherVars == <<parseVars, normVars, clientVars>>

vars == <<serverVars, otherVars>>

\* a function that has not been applied yet
NotRun == [ok |-> FALSE, e |-> [msg |-> "not run", echo |-> <<>>]]

ParseIdle ==
  /\ raw = <<>>
  /\ serverParsed = NotRun
  /\ clientParsed = NotRun

NormIdle ==
  /\ nParsed = Null
  /\ nTarget = 1
  /\ nOut = NotRun
  /\ nArgAfter = Null
  /\ nAgain = NotRun

\* useState(...) initial values with an empty localStorage
SessionReset ==
  [uIdx |-> 0, lIdx |-> 0, inTest |-> FALSE, ans |-> <<>>, submitted |-> FALSE,
   score |-> Null, analysis |-> ""]

Emails == {"ann@example.org"}

ClientIdle ==
  /\ user = "none"
  /\ allCourses = [e \in Emails |-> <<>>]
  /\ course = Null
  /\ page = "home"
  /\ file = "none"
  /\ etxt = Str("")
  /\ extracting = FALSE
  /\ hPending = <<>>
  /\ generating = FALSE
  /\ remediating = FALSE
  /\ gStatus = ""
  /\ gErr = ""
  /\ session = SessionReset
  /\ lastWrong = <<>>
  /\ now = 1
  /\ genPc = "idle"
  /\ genCtx = Null
  /\ focPc = "idle"
  /\ focCtx = Null
  /\ analyzing = FALSE
  /\ aPending = <<>>

\* ------------------------------------------------------------------
\* Responses
\* ------------------------------------------------------------------
Status(code, b) == [status |-> code, body |-> b]
BadRequest(msg) == Status(400, [error |-> Err(msg, <<>>)])
\* a mutant of ServerError: the catch block forgets res.status(500)
ServerErrorNoStatus(e, fallback) ==
  Status(200, [error |-> IF e.msg = "" THEN Err(fallback, <<>>) ELSE e])

\* catch (e) { res.status(500).json({ error: e.message || fallback }) }
ServerError(e, fallback) ==
  Status(500, [error |-> IF e.msg = "" THEN Err(fallback, <<>>) ELSE e])

\* ------------------------------------------------------------------
\* openaiResponses
\* ------------------------------------------------------------------
StatusMsg(status) ==
  CASE status = 429 -> "OpenAI error (429)"
    [] status = 500 -> "OpenAI error (500)"

\* the request sent by fetch
Call(model, input, max_output_tokens, json_object) ==
  [url |-> OPENAI_URL, model |-> model, input |-> input,
   max_output_tokens |-> max_output_tokens, truncation |-> "auto",
   json_object |-> json_object]

UpstreamOk(d) == [kind |-> "ok", d |-> d]
UpstreamHttpError(status, d) == [kind |-> "http_error", status |-> status, d |-> d]
UpstreamNetworkError == [kind |-> "network_error"]

\* what openaiResponses returns or throws once its fetch has settled
openaiResult(reply) ==
  CASE reply.kind = "network_error" -> Throw(Err("fetch failed", <<>>))
    [] reply.kind = "http_error" ->
         LET d == reply.d
             msg == Or(Or(OptGet(OptGet(d, "error"), "message"), OptGet(d, "message")),
                       Str(StatusMsg(reply.status)))
         IN Throw(Err(msg.s, <<>>))
    [] reply.kind = "ok" -> Ok(reply.d)

\* ------------------------------------------------------------------
\* Prompt builders: the variable parts of each template
\* ------------------------------------------------------------------
Min(a, b) == IF a <= b THEN a ELSE b

\* text.slice(0, n)
Slice(text, n) ==
  IF text.kind = "text" THEN Text(text.id, Min(text.len, n)) ELSE text

buildCourseOnlyPrompt(syllabusText, settings) ==
  [template |-> "course-only",
   minWords |-> Nullish(OptGet(settings, "minimumLessonWords"), Num(DefaultMinWords)),
   syllabusText |-> syllabusText]

buildQuizOnlyPrompt(courseOutline, settings) ==
  [template |-> "quiz-only",
   quizCount |-> Nullish(OptGet(settings, "quizCountTarget"), Num(DefaultQuizCount)),
   courseOutline |-> courseOutline]

buildAnalysisPrompt(courseTitle, score, wrong) ==
  [template |-> "analysis",
   courseTitle |-> Or(courseTitle, Str("a course")),
   pct |-> Nullish(OptGet(score, "pct"), Str("?")),
   correct |-> Nullish(OptGet(score, "correct"), Str("?")),
   total |-> Nullish(OptGet(score, "total"), Str("?")),
   wrong |-> wrong]

\* (sourceText || "").slice(0, n): a string is cut to n characters, an array
\* to n elements; any other truthy value has no slice method
SliceAny(src, n) ==
  CASE IsString(src) -> Ok(Slice(src, n))
    [] src.kind = "arr" -> Ok(Arr(SubSeq(src.items, 1, Min(Len(src.items), n))))
    [] OTHER -> Throw(Err("slice is not a function", <<>>))

buildFocusedPrompt(originalCourse, wrongAnswers, priorAnalysis, sourceText, settings) ==
  LET src == Or(sourceText, Str(""))
  IN IF ~SliceAny(src, MaxPromptChars).ok THEN SliceAny(src, MaxPromptChars)
     ELSE Ok([template |-> "focused",
              minWords |-> Nullish(OptGet(settings, "minimumLessonWords"), Num(DefaultMinWords)),
              quizCount |-> Nullish(OptGet(settings, "quizCountTarget"),
                                    Num(DefaultFocusedQuizCount)),
              originalCourse |-> originalCourse,
              wrongAnswers |-> wrongAnswers,
              priorAnalysis |-> Or(priorAnalysis, Str("(none)")),
              sourceText |-> SliceAny(src, MaxPromptChars).v])

\* ------------------------------------------------------------------
\* generate-course: outline and merge
\* ------------------------------------------------------------------
NullReadMsg == "Cannot read properties of null"
NotAFunctionMsg == "map is not a function"
PrimitiveWriteMsg == "Cannot create property 'finalTest'"

IsNullish(v) == v.kind \in {"undefined", "null"}

\* a mutant of LessonOutline: the lesson body is carried along
LessonOutlineWithContent(l) ==
  Obj(<<Mem("id", Get(l, "id")), Mem("title", Get(l, "title")),
        Mem("content", Get(l, "content"))>>)

\* (u.lessons || []).map((l) => ({ id: l.id, title: l.title }))
LessonOutline(l) == Obj(<<Mem("id", Get(l, "id")), Mem("title", Get(l, "title"))>>)

UnitOutline(u) ==
  LET lessons == Or(Get(u, "lessons"), Arr(<<>>))
  IN Obj(<<Mem("id", Get(u, "id")), Mem("title", Get(u, "title")),
           Mem("lessons",
               Arr([i \in 1..Len(lessons.items) |-> LessonOutline(lessons.items[i])]))>>)

\* the unit can be mapped without a TypeError
UnitMappable(u) ==
  /\ ~IsNullish(u)
  /\ LET lessons == Or(Get(u, "lessons"), Arr(<<>>))
     IN /\ lessons.kind = "arr"
        /\ \A i \in 1..Len(lessons.items) : ~IsNullish(lessons.items[i])

\* a mutant of outlineForQuiz: optional chaining lets a null course through
outlineForQuizOptional(c) ==
  IF IsNullish(c)
  THEN Ok(Obj(<<Mem("courseTitle", Undefined), Mem("units", Arr(<<>>))>>))
  ELSE LET units == Or(Get(c, "units"), Arr(<<>>))
       IN IF units.kind # "arr" THEN Throw(Err(NotAFunctionMsg, <<>>))
          ELSE IF \E i \in 1..Len(units.items) : IsNullish(units.items[i])
          THEN Throw(Err(NullReadMsg, <<>>))
          ELSE IF \E i \in 1..Len(units.items) : ~UnitMappable(units.items[i])
          THEN Throw(Err(NotAFunctionMsg, <<>>))
          ELSE Ok(Obj(<<Mem("courseTitle", Get(c, "courseTitle")),
                        Mem("units",
                            Arr([i \in 1..Len(units.items) |->
                                   UnitOutline(units.items[i])]))>>))

outlineForQuiz(c) ==
  IF IsNullish(c) THEN Throw(Err(NullReadMsg, <<>>))
  ELSE LET units == Or(Get(c, "units"), Arr(<<>>))
       IN IF units.kind # "arr" THEN Throw(Err(NotAFunctionMsg, <<>>))
          ELSE IF \E i \in 1..Len(units.items) : IsNullish(units.items[i])
          THEN Throw(Err(NullReadMsg, <<>>))
          ELSE IF \E i \in 1..Len(units.items) : ~UnitMappable(units.items[i])
          THEN Throw(Err(NotAFunctionMsg, <<>>))
          ELSE Ok(Obj(<<Mem("courseTitle", Get(c, "courseTitle")),
                        Mem("units",
                            Arr([i \in 1..Len(units.items) |->
                                   UnitOutline(units.items[i])]))>>))

\* a mutant of Merge: the course's own finalTest is assigned, not the quiz's
MergeOwnFinalTest(c, quizObj) ==
  IF IsNullish(quizObj) THEN Throw(Err(NullReadMsg, <<>>))
  ELSE IF c.kind = "obj"
  THEN Ok(Obj(SetMember(c.members, "finalTest", Get(c, "finalTest"))))
  ELSE IF c.kind = "arr" THEN Ok(c)
  ELSE Throw(Err(PrimitiveWriteMsg, <<>>))

\* courseObj.finalTest = quizObj.finalTest (module code is strict: writing a
\* property of a primitive throws; a property written on an array is kept
\* on the array but is not part of its serialization)
Merge(c, quizObj) ==
  IF IsNullish(quizObj) THEN Throw(Err(NullReadMsg, <<>>))
  ELSE IF c.kind = "obj"
  THEN Ok(Obj(SetMember(c.members, "finalTest", Get(quizObj, "finalTest"))))
  ELSE IF c.kind = "arr" THEN Ok(c)
  ELSE Throw(Err(PrimitiveWriteMsg, <<>>))

\* ------------------------------------------------------------------
\* Inputs: request bodies and upstream replies
\* ------------------------------------------------------------------
SettingsA == Obj(<<Mem("minimumLessonWords", Num(450)), Mem("quizCountTarget", Num(20))>>)

WrongA ==
  Obj(<<Mem("question", Str("question 1")), Mem("yourAnswer", Str("a")),
        Mem("correctAnswer", Str("c")), Mem("explanation", Str("why"))>>)

OutlineA ==
  Obj(<<Mem("courseTitle", Str("Algebra")), Mem("courseDescription", Str("about")),
        Mem("units", Arr(<<UnitA>>))>>)

\* req.body || {}: a request without a body is the empty object
GenBodies ==
  { Obj(<<>>),
    Obj(<<Mem("syllabusText", Text("syllabus", 0))>>),
    Obj(<<Mem("syllabusText", Num(5))>>),
    Obj(<<Mem("syllabusText", Arr(<<>>)), Mem("settings", SettingsA)>>),
    Obj(<<Mem("syllabusText", Text("syllabus", 5000))>>),
    Obj(<<Mem("syllabusText", Text("syllabus", 30000)), Mem("settings", SettingsA),
          Mem("model", Str("gpt-4o"))>>) }

OcrBodies ==
  { Obj(<<>>),
    Obj(<<Mem("imageDataUrl", Str(""))>>),
    Obj(<<Mem("imageDataUrl", Str("data:image/png;base64,AAAA"))>>),
    Obj(<<Mem("imageDataUrl", Str("data:image/png;base64,AAAA")),
          Mem("instruction", Str("read the table")), Mem("model", Str("gpt-4o"))>>) }

AnalyzeBodies ==
  { Obj(<<>>),
    Obj(<<Mem("courseTitle", Str("Algebra")), Mem("wrong", Num(5))>>),
    Obj(<<Mem("wrong", Arr(<<>>))>>),
    Obj(<<Mem("courseTitle", Str("Algebra")),
          Mem("score", Obj(<<Mem("pct", Num(50)), Mem("correct", Num(1)),
                             Mem("total", Num(2))>>)),
          Mem("wrong", Arr(<<WrongA>>)), Mem("model", Str("gpt-4o"))>>) }

FocusedBodies ==
  { Obj(<<>>),
    Obj(<<Mem("wrongAnswers", Arr(<<WrongA>>))>>),
    Obj(<<Mem("originalCourse", OutlineA)>>),
    Obj(<<Mem("originalCourse", OutlineA), Mem("wrongAnswers", Null)>>),
    Obj(<<Mem("originalCourse", OutlineA), Mem("wrongAnswers", Arr(<<>>))>>),
    Obj(<<Mem("originalCourse", OutlineA), Mem("wrongAnswers", Str("q1"))>>),
    Obj(<<Mem("originalCourse", OutlineA), Mem("wrongAnswers", WrongA)>>),
    Obj(<<Mem("originalCourse", OutlineA), Mem("wrongAnswers", Arr(<<WrongA>>))>>),
    Obj(<<Mem("originalCourse", OutlineA), Mem("wrongAnswers", Arr(<<WrongA>>)),
          Mem("priorAnalysis", Str("weak on unit 1")),
          Mem("sourceText", Text("syllabus", 30000)), Mem("settings", SettingsA),
          Mem("model", Str("gpt-4o"))>>),
    Obj(<<Mem("originalCourse", OutlineA), Mem("wrongAnswers", Arr(<<WrongA>>)),
          Mem("sourceText", Text("syllabus", 5000))>>),
    Obj(<<Mem("originalCourse", OutlineA), Mem("wrongAnswers", Arr(<<WrongA>>)),
          Mem("sourceText", Arr(<<Text("syllabus", 30000)>>))>>) }

\* Texts the model returns.  A member token stands for text with braces of
\* its own, so it is only used between an opening and a closing brace, where
\* those braces cannot be the first "{" or the last "}" of the text.
RawTexts ==
  { <<"{", "T", "U", "}">>,
    <<"{", "F", "}">>,
    <<"p", " ", "{", "T", "U", "}", " ", "p">>,
    <<"{", "}">>,
    <<"null">>,
    <<"5">>,
    <<"[]">>,
    <<"p", "p">>,
    <<"{", "p", "}">>,
    <<>>,
    <<"{", "T", "U", "Fb", "}">>,
    <<"{", "T", "Un", "}">> }

Envelopes ==
  { Envelope(t, <<>>) : t \in RawTexts } \cup
  { Envelope(<<>>, <<MessageItem(<<TextBlock(<<"{", "T">>), OtherItem,
                                   TextBlock(<<"U", "}">>)>>)>>),
    Envelope(<<" ">>, <<OtherItem, TextBlock(<<"p", "{", "F">>),
                        TextBlock(<<"}", "p">>)>>) }

Replies ==
  { UpstreamOk(e) : e \in Envelopes } \cup
  { UpstreamHttpError(429, Obj(<<Mem("error", Obj(<<Mem("message", Str("Rate limit reached"))>>))>>)),
    UpstreamHttpError(500, Obj(<<Mem("message", Str("Bad gateway"))>>)),
    UpstreamHttpError(500, Obj(<<>>)),
    UpstreamNetworkError }

\* ------------------------------------------------------------------
\* Initial state
\* ------------------------------------------------------------------
Init ==
  /\ ParseIdle
  /\ NormIdle
  /\ ClientIdle
  /\ apiKey \in BOOLEAN
  /\ pc = [s \in Slots |-> "idle"]
  /\ route = [s \in Slots |-> "none"]
  /\ body = [s \in Slots |-> Undefined]
  /\ calls = [s \in Slots |-> <<>>]
  /\ d1 = [s \in Slots |-> Undefined]
  /\ courseObj = [s \in Slots |-> Undefined]
  /\ d2 = [s \in Slots |-> Undefined]
  /\ res = [s \in Slots |-> <<>>]

\* the server before any request
ServerIdle ==
  /\ pc = [s \in Slots |-> "idle"]
  /\ route = [s \in Slots |-> "none"]
  /\ body = [s \in Slots |-> Undefined]
  /\ calls = [s \in Slots |-> <<>>]
  /\ d1 = [s \in Slots |-> Undefined]
  /\ courseObj = [s \in Slots |-> Undefined]
  /\ d2 = [s \in Slots |-> Undefined]
  /\ res = [s \in Slots |-> <<>>]

\* ------------------------------------------------------------------
\* Handler steps
\* ------------------------------------------------------------------
\* a mutant of Accept: route and body are kept in one place for all requests
AcceptShared(s, r, b) ==
  /\ pc[s] = "idle"
  /\ route' = [t \in DOMAIN route |-> r]
  /\ body' = [t \in DOMAIN body |-> b]

\* a request arrives on a free slot
Accept(s, r, b) ==
  /\ pc[s] = "idle"
  /\ route' = [route EXCEPT ![s] = r]
  /\ body' = [body EXCEPT ![s] = b]

\* the handler sends a response and returns
Respond(s, response) ==
  /\ res' = [res EXCEPT ![s] = Append(@, response)]
  /\ pc' = [pc EXCEPT ![s] = "done"]

\* a mutant of Invoke: the fetch is issued again after the first one
InvokeWithRetry(s, call, next, fallback) ==
  IF ~apiKey
  THEN /\ Respond(s, ServerError(Err(MissingKeyMsg, <<>>), fallback))
       /\ UNCHANGED calls
  ELSE /\ calls' = [calls EXCEPT ![s] = Append(Append(@, call), call)]
       /\ pc' = [pc EXCEPT ![s] = next]
       /\ UNCHANGED res

\* a mutant of Invoke: the credential is not checked before the fetch
InvokeNoKeyCheck(s, call, next, fallback) ==
  /\ calls' = [calls EXCEPT ![s] = Append(@, call)]
  /\ pc' = [pc EXCEPT ![s] = next]
  /\ UNCHANGED res

\* await openaiResponses(...): throws without a key, else issues one fetch
\* and suspends the handler at label next
Invoke(s, call, next, fallback) ==
  IF ~apiKey
  THEN /\ Respond(s, ServerError(Err(MissingKeyMsg, <<>>), fallback))
       /\ UNCHANGED calls
  ELSE /\ calls' = [calls EXCEPT ![s] = Append(@, call)]
       /\ pc' = [pc EXCEPT ![s] = next]
       /\ UNCHANGED res

OcrFallback == "OCR failed"
GenerateFallback == "Course generation failed"
AnalyzeFallback == "Analysis failed"
FocusedFallback == "Focused course generation failed"

\* POST /api/ai/ocr-image, up to the first await
OcrImage(s, b) ==
  /\ Accept(s, "ocr-image", b)
  /\ UNCHANGED <<apiKey, d1, courseObj, d2>>
  /\ UNCHANGED otherVars
  /\ IF ~Truthy(Get(b, "imageDataUrl"))
     THEN /\ Respond(s, BadRequest("imageDataUrl is required"))
          /\ UNCHANGED calls
     ELSE Invoke(s,
                 Call(Or(Get(b, "model"), OPENAI_VISION_MODEL),
                      [instruction |-> Or(Get(b, "instruction"), DefaultOcrInstruction),
                       image_url |-> Get(b, "imageDataUrl")],
                      OcrMaxTokens, FALSE),
                 "ocr", OcrFallback)

\* ocr-image after its fetch settled
OcrReply(s, reply) ==
  /\ pc[s] = "ocr"
  /\ UNCHANGED <<apiKey, route, body, calls, d1, courseObj, d2>>
  /\ UNCHANGED otherVars
  /\ LET d == openaiResult(reply)
     IN IF ~d.ok THEN Respond(s, ServerError(d.e, OcrFallback))
        ELSE Respond(s, Status(200, [text |-> extractText(d.v)]))

\* a mutant of syllabusTextInvalid: the typeof check is left out
syllabusTextInvalidNoTypeCheck(syllabusText) == ~Truthy(syllabusText)

\* !syllabusText || typeof syllabusText !== "string"
syllabusTextInvalid(syllabusText) == ~Truthy(syllabusText) \/ ~IsString(syllabusText)

\* POST /api/ai/generate-course, up to the first await (pass 1)
GenerateCourse(s, b) ==
  /\ Accept(s, "generate-course", b)
  /\ UNCHANGED <<apiKey, d1, courseObj, d2>>
  /\ UNCHANGED otherVars
  /\ LET syllabusText == Get(b, "syllabusText")
     IN IF syllabusTextInvalid(syllabusText)
        THEN /\ Respond(s, BadRequest("syllabusText (string) is required"))
             /\ UNCHANGED calls
        ELSE LET trimmed == Slice(syllabusText, MaxPromptChars)
                 coursePrompt == buildCourseOnlyPrompt(trimmed, Get(b, "settings"))
             IN Invoke(s,
                       Call(Or(Get(b, "model"), OPENAI_MODEL), coursePrompt,
                            CourseMaxTokens, TRUE),
                       "pass1", GenerateFallback)

\* generate-course after the pass-1 fetch settled: parse the course, build
\* the outline and start pass 2
Pass1Reply(s, reply) ==
  /\ pc[s] = "pass1"
  /\ UNCHANGED <<apiKey, route, body, d2>>
  /\ UNCHANGED otherVars
  /\ LET d == openaiResult(reply)
     IN IF ~d.ok
        THEN /\ Respond(s, ServerError(d.e, GenerateFallback))
             /\ UNCHANGED <<calls, d1, courseObj>>
        ELSE /\ d1' = [d1 EXCEPT ![s] = d.v]
             /\ LET parsed == safeParseJson(extractText(d.v))
                IN IF ~parsed.ok
                   THEN /\ Respond(s, ServerError(parsed.e, GenerateFallback))
                        /\ UNCHANGED <<calls, courseObj>>
                   ELSE /\ courseObj' = [courseObj EXCEPT ![s] = parsed.v]
                        /\ LET outline == outlineForQuiz(parsed.v)
                           IN IF ~outline.ok
                              THEN /\ Respond(s, ServerError(outline.e, GenerateFallback))
                                   /\ UNCHANGED calls
                              ELSE Invoke(s,
                                          Call(Or(Get(body[s], "model"), OPENAI_MODEL),
                                               buildQuizOnlyPrompt(outline.v,
                                                                   Get(body[s], "settings")),
                                               QuizMaxTokens, TRUE),
                                          "pass2", GenerateFallback)

\* generate-course after the pass-2 fetch settled: parse the quiz, merge it
\* into the course and send the serialized course
Pass2Reply(s, reply) ==
  /\ pc[s] = "pass2"
  /\ UNCHANGED <<apiKey, route, body, calls, d1>>
  /\ UNCHANGED otherVars
  /\ LET d == openaiResult(reply)
     IN IF ~d.ok
        THEN /\ Respond(s, ServerError(d.e, GenerateFallback))
             /\ UNCHANGED <<d2, courseObj>>
        ELSE /\ d2' = [d2 EXCEPT ![s] = d.v]
             /\ LET quiz == safeParseJson(extractText(d.v))
                IN IF ~quiz.ok
                   THEN /\ Respond(s, ServerError(quiz.e, GenerateFallback))
                        /\ UNCHANGED courseObj
                   ELSE LET merged == Merge(courseObj[s], quiz.v)
                        IN IF ~merged.ok
                           THEN /\ Respond(s, ServerError(merged.e, GenerateFallback))
                                /\ UNCHANGED courseObj
                           ELSE /\ courseObj' = [courseObj EXCEPT ![s] = merged.v]
                                /\ Respond(s, Status(200,
                                                     [jsonText |-> JsonStringify(merged.v)]))

\* POST /api/ai/analyze-test, up to the first await
AnalyzeTest(s, b) ==
  /\ Accept(s, "analyze-test", b)
  /\ UNCHANGED <<apiKey, d1, courseObj, d2>>
  /\ UNCHANGED otherVars
  /\ IF Get(b, "wrong").kind # "arr"
     THEN /\ Respond(s, BadRequest("wrong must be an array"))
          /\ UNCHANGED calls
     ELSE Invoke(s,
                 Call(Or(Get(b, "model"), OPENAI_MODEL),
                      buildAnalysisPrompt(Get(b, "courseTitle"), Get(b, "score"),
                                          Get(b, "wrong")),
                      AnalysisMaxTokens, FALSE),
                 "analyze", AnalyzeFallback)

\* analyze-test after its fetch settled
AnalyzeReply(s, reply) ==
  /\ pc[s] = "analyze"
  /\ UNCHANGED <<apiKey, route, body, calls, d1, courseObj, d2>>
  /\ UNCHANGED otherVars
  /\ LET d == openaiResult(reply)
     IN IF ~d.ok THEN Respond(s, ServerError(d.e, AnalyzeFallback))
        ELSE Respond(s, Status(200, [text |-> extractText(d.v)]))

\* a mutant of wrongAnswersInvalid: the length check is left out
wrongAnswersInvalidNoLengthCheck(wrongAnswers) == wrongAnswers.kind # "arr"

\* !Array.isArray(wrongAnswers) || wrongAnswers.length === 0
wrongAnswersInvalid(wrongAnswers) ==
  wrongAnswers.kind # "arr" \/ Len(wrongAnswers.items) = 0

\* POST /api/ai/focused-course, up to the first await
FocusedCourse(s, b) ==
  /\ Accept(s, "focused-course", b)
  /\ UNCHANGED <<apiKey, d1, courseObj, d2>>
  /\ UNCHANGED otherVars
  /\ LET originalCourse == Get(b, "originalCourse")
         wrongAnswers == Get(b, "wrongAnswers")
     IN IF ~Truthy(originalCourse)
        THEN /\ Respond(s, BadRequest("originalCourse is required"))
             /\ UNCHANGED calls
        ELSE IF wrongAnswersInvalid(wrongAnswers)
        THEN /\ Respond(s, BadRequest("wrongAnswers must be a non-empty array"))
             /\ UNCHANGED calls
        ELSE LET prompt == buildFocusedPrompt(originalCourse, wrongAnswers,
                                              Get(b, "priorAnalysis"),
                                              Get(b, "sourceText"), Get(b, "settings"))
             IN IF ~prompt.ok
                THEN /\ Respond(s, ServerError(prompt.e, FocusedFallback))
                     /\ UNCHANGED calls
                ELSE Invoke(s,
                            Call(Or(Get(b, "model"), OPENAI_MODEL), prompt.v,
                                 FocusedMaxTokens, TRUE),
                            "focused", FocusedFallback)

\* focused-course after its fetch settled: the extracted text is sent as is
FocusedReply(s, reply) ==
  /\ pc[s] = "focused"
  /\ UNCHANGED <<apiKey, route, body, calls, d1, courseObj, d2>>
  /\ UNCHANGED otherVars
  /\ LET d == openaiResult(reply)
     IN IF ~d.ok THEN Respond(s, ServerError(d.e, FocusedFallback))
        ELSE Respond(s, Status(200, [jsonText |-> extractText(d.v)]))

Next ==
  \E s \in Slots :
    \/ \E b \in OcrBodies : OcrImage(s, b)
    \/ \E b \in GenBodies : GenerateCourse(s, b)
    \/ \E b \in AnalyzeBodies : AnalyzeTest(s, b)
    \/ \E b \in FocusedBodies : FocusedCourse(s, b)
    \/ \E reply \in Replies :
         \/ OcrReply(s, reply)
         \/ Pass1Reply(s, reply)
         \/ Pass2Reply(s, reply)
         \/ AnalyzeReply(s, reply)
         \/ FocusedReply(s, reply)

Spec == Init /\ [][Next]_vars

\* ------------------------------------------------------------------
\* Vocabulary of the properties
\* ------------------------------------------------------------------
GenSlots == {s \in Slots : route[s] = "generate-course"}
FocusedSlots == {s \in Slots : route[s] = "focused-course"}

GotPass1(s) == d1[s] # Undefined
GotPass2(s) == d2[s] # Undefined
Parsed1(s) == safeParseJson(extractText(d1[s]))
Parsed2(s) == safeParseJson(extractText(d2[s]))

OneResponse(s) == Len(res[s]) = 1
SentStatus(s, code) == \E i \in 1..Len(res[s]) : res[s][i].status = code

\* an error response: a non-empty message and nothing else
IsErrorOnly(r, code) ==
  /\ r.status = code
  /\ DOMAIN r.body = {"error"}
  /\ r.body.error.msg # ""

FailedWith(s, code) == pc[s] = "done" /\ OneResponse(s) /\ IsErrorOnly(res[s][1], code)

\* the request passes the validation of its endpoint
ValidBody(s) ==
  CASE route[s] = "ocr-image" -> Truthy(Get(body[s], "imageDataUrl"))
    [] route[s] = "generate-course" ->
         LET t == Get(body[s], "syllabusText") IN IsString(t) /\ Truthy(t)
    [] route[s] = "analyze-test" -> Get(body[s], "wrong").kind = "arr"
    [] route[s] = "focused-course" ->
         /\ Truthy(Get(body[s], "originalCourse"))
         /\ Get(body[s], "wrongAnswers").kind = "arr"
         /\ Get(body[s], "wrongAnswers").items # <<>>
    [] OTHER -> FALSE

\* a lesson list, when present, is an array of lesson objects
LessonsWellFormed(u) ==
  ~HasKey(u, "lessons") \/
    /\ Get(u, "lessons").kind = "arr"
    /\ \A i \in 1..Len(Get(u, "lessons").items) : Get(u, "lessons").items[i].kind = "obj"

\* a course object with units (an array of unit objects) and no finalTest
CourseWithoutQuiz(v) ==
  /\ v.kind = "obj"
  /\ HasKey(v, "units")
  /\ Get(v, "units").kind = "arr"
  /\ \A i \in 1..Len(Get(v, "units").items) :
       /\ Get(v, "units").items[i].kind = "obj"
       /\ LessonsWellFormed(Get(v, "units").items[i])
  /\ ~HasKey(v, "finalTest")

\* an object {finalTest: {questions: [...]}}
QuizObject(v) ==
  /\ v.kind = "obj"
  /\ Get(v, "finalTest").kind = "obj"
  /\ Get(Get(v, "finalTest"), "questions").kind = "arr"

\* the case of the two-pass merge: both passes returned what they were asked for
TwoPassCase(s) ==
  /\ s \in GenSlots
  /\ pc[s] = "done"
  /\ GotPass1(s) /\ Parsed1(s).ok /\ CourseWithoutQuiz(Parsed1(s).v)
  /\ GotPass2(s) /\ Parsed2(s).ok /\ QuizObject(Parsed2(s).v)

\* r is a success whose jsonText is the pass-1 course with the pass-2 finalTest
MergedCourse(s, r) ==
  /\ r.status = 200
  /\ DOMAIN r.body = {"jsonText"}
  /\ LET c == JsonParse(r.body.jsonText)
         c1 == Parsed1(s).v
     IN /\ c.ok
        /\ c.v.kind = "obj"
        /\ Get(c.v, "units") = Get(c1, "units")
        /\ \A i \in 1..Len(c1.members) : Get(c.v, c1.members[i].k) = c1.members[i].v
        /\ Get(c.v, "finalTest") = Get(Parsed2(s).v, "finalTest")

\* ------------------------------------------------------------------
\* Properties
\* ------------------------------------------------------------------
\* C1: in generate-course, when pass 1 yields a parseable course object with
\* units and no finalTest and pass 2 yields a parseable {finalTest:
\* {questions: [...]}}, the request succeeds and the serialized course holds
\* the pass-1 units (and other members) unchanged and the pass-2 finalTest.
C1_TwoPassMerge ==
  \A s \in Slots : TwoPassCase(s) => OneResponse(s) /\ MergedCourse(s, res[s][1])

\* both parse paths were used: pass 1 came wrapped in prose, pass 2 was strict
C1_Witness ==
  \E s \in Slots :
    /\ TwoPassCase(s)
    /\ SentStatus(s, 200)
    /\ Get(Parsed1(s).v, "units").items # <<>>
    /\ ~JsonParse(extractText(d1[s])).ok

\* a step of generate-course failed: a model call (or the credential check
\* in front of it) or the extraction of JSON from a pass's output
Pass1CallFailed(s) == pc[s] = "done" /\ ValidBody(s) /\ ~GotPass1(s)
Pass1ParseFailed(s) == GotPass1(s) /\ ~Parsed1(s).ok
Pass2CallFailed(s) == pc[s] = "done" /\ Len(calls[s]) = 2 /\ ~GotPass2(s)
Pass2ParseFailed(s) == GotPass2(s) /\ ~Parsed2(s).ok
StepFailed(s) ==
  Pass1CallFailed(s) \/ Pass1ParseFailed(s) \/ Pass2CallFailed(s) \/ Pass2ParseFailed(s)

\* C2: in generate-course, if any step fails (pass-1 call, pass-1 JSON
\* extraction, pass-2 call, pass-2 JSON extraction) the request ends with
\* exactly one 500 response that carries a message and no course data.
C2_AnyFailureIsOne500 ==
  \A s \in GenSlots : StepFailed(s) => FailedWith(s, 500)

\* pass 1 succeeded with a course and pass 2 failed: the course is not returned
C2_Witness ==
  \E s \in GenSlots :
    /\ GotPass1(s) /\ Parsed1(s).ok /\ CourseWithoutQuiz(Parsed1(s).v)
    /\ (Pass2CallFailed(s) \/ Pass2ParseFailed(s))
    /\ FailedWith(s, 500)

\* C3: every success response of generate-course carries a course that
\* includes the quiz, a finalTest taken from pass 2.
C3_SuccessCarriesQuiz ==
  \A s \in GenSlots :
    \A i \in 1..Len(res[s]) :
      res[s][i].status = 200 =>
        LET c == JsonParse(res[s][i].body.jsonText)
        IN /\ c.ok
           /\ HasKey(c.v, "finalTest")
           /\ Get(c.v, "finalTest") = Get(Parsed2(s).v, "finalTest")

\* the template of the first call of each endpoint
FirstTemplate(r) ==
  CASE r = "generate-course" -> "course-only"
    [] r = "analyze-test" -> "analysis"
    [] r = "focused-course" -> "focused"
    [] OTHER -> "none"

\* the calls a request has made: at most two for generate-course, the course
\* prompt and then, once pass 1 was received and parsed, the quiz prompt;
\* at most one for the other endpoints
CallBudget(s) ==
  /\ Len(calls[s]) <= (IF route[s] = "generate-course" THEN 2 ELSE 1)
  /\ (Len(calls[s]) >= 1 /\ route[s] # "ocr-image") =>
       calls[s][1].input.template = FirstTemplate(route[s])
  /\ Len(calls[s]) = 2 =>
       /\ calls[s][2].input.template = "quiz-only"
       /\ GotPass1(s) /\ Parsed1(s).ok
  /\ (pc[s] \in {"ocr", "pass1", "analyze", "focused"}) => Len(calls[s]) = 1
  /\ pc[s] = "pass2" => Len(calls[s]) = 2

\* C4: each Model Client invocation makes at most one outbound call and is
\* never retried: the log of a request's calls holds at most two calls for
\* generate-course, the pass-1 call and then the pass-2 call, the second only
\* after pass 1 succeeded and was parsed, and at most one call for ocr-image,
\* analyze-test and focused-course; a failed call is not followed by another.
C4_OneCallPerInvocation ==
  \A s \in Slots :
    /\ CallBudget(s)
    /\ (s \in GenSlots /\ pc[s] = "done" /\ ~GotPass1(s)) => Len(calls[s]) <= 1

\* a generate-course request that made both of its calls, the second failing
C4_Witness ==
  \E s \in GenSlots : Len(calls[s]) = 2 /\ Pass2CallFailed(s) /\ SentStatus(s, 500)

\* C5: without the API credential every generation-family operation given
\* otherwise valid input fails with the configuration error as a 500, and no
\* outbound call is made.
C5_MissingKeyFailsBeforeCall ==
  ~apiKey =>
    \A s \in Slots :
      /\ calls[s] = <<>>
      /\ (pc[s] # "idle" /\ ValidBody(s)) =>
           /\ FailedWith(s, 500)
           /\ res[s][1].body.error.msg = MissingKeyMsg

C5_Witness ==
  \E s \in Slots :
    /\ ~apiKey /\ ValidBody(s) /\ route[s] = "focused-course"
    /\ FailedWith(s, 500) /\ res[s][1].body.error.msg = MissingKeyMsg

\* wrongAnswers is absent, is not an array or is an empty array
WrongAnswersRejected(b) ==
  LET w == Get(b, "wrongAnswers")
  IN w.kind # "arr" \/ Len(w.items) = 0

\* C6: focused-course responds 400 and makes no model call whenever
\* wrongAnswers is absent, not an array or an empty array, even if
\* originalCourse is present.
C6_FocusedRejectsEmptyWrongAnswers ==
  \A s \in FocusedSlots :
    WrongAnswersRejected(body[s]) => FailedWith(s, 400) /\ calls[s] = <<>>

C6_Witness ==
  \E s \in FocusedSlots :
    /\ Truthy(Get(body[s], "originalCourse"))
    /\ Get(body[s], "wrongAnswers") = Arr(<<>>)
    /\ FailedWith(s, 400)
    /\ apiKey

\* C7: generate-course responds 400 and makes no model call when
\* syllabusText is missing, empty or not a string; every other failure is a
\* 500 with a message: a request with a valid syllabusText is never answered
\* 400, and is answered once, by a success or by a 500 error.
C7_GenerateValidation ==
  \A s \in GenSlots :
    LET t == Get(body[s], "syllabusText")
    IN IF \/ t.kind = "undefined"
          \/ ~IsString(t)
          \/ (t.kind = "text" /\ t.len = 0)
          \/ (t.kind = "str" /\ t.s = "")
       THEN FailedWith(s, 400) /\ calls[s] = <<>>
       ELSE pc[s] = "done" =>
              /\ OneResponse(s)
              /\ (res[s][1].status = 200 \/ IsErrorOnly(res[s][1], 500))

C7_Witness ==
  \E s \in GenSlots :
    /\ Get(body[s], "syllabusText") = Num(5)
    /\ FailedWith(s, 400)
    /\ apiKey

\* C8: in the focused-course flow, model output that neither the strict nor
\* the lenient path can turn into JSON makes the operation fail with a 500;
\* such output is never returned as a success.
C8_FocusedMalformedIs500 ==
  \A s \in FocusedSlots :
    \A i \in 1..Len(res[s]) :
      res[s][i].status = 200 => safeParseJson(res[s][i].body.jsonText).ok

\* C9: whenever the output of a generate-course pass cannot be parsed by the
\* strict or the lenient path, the 500 response carries the generic "not
\* valid JSON" message and no part of the raw model output.
C9_GenericMalformedMessage ==
  \A s \in GenSlots :
    (Pass1ParseFailed(s) \/ Pass2ParseFailed(s)) =>
      /\ FailedWith(s, 500)
      /\ res[s][1].body.error = Err(NotValidJsonMsg, <<>>)

\* the parsed pass-1 output is not an object bearing a units field
NoUnitsBearingObject(s) ==
  /\ GotPass1(s) /\ Parsed1(s).ok
  /\ ~(Parsed1(s).v.kind = "obj" /\ HasKey(Parsed1(s).v, "units"))

\* C10 (as stated): generate-course fails, with no success response and no
\* pass-2 call, when the parsed pass-1 output is not an object bearing a
\* units field.
C10_FailsWithoutUnits ==
  \A s \in GenSlots :
    NoUnitsBearingObject(s) => Len(calls[s]) <= 1 /\ ~SentStatus(s, 200)

\* C10 (amended): generate-course fails with a 500, with no success response
\* and no pass-2 call, when the pass-1 output cannot be parsed or parses to
\* null; and it sends no success response when the parsed pass-1 output is a
\* number.
C10_FailsOnUnparsedOrNull ==
  \A s \in GenSlots :
    /\ (GotPass1(s) /\ (~Parsed1(s).ok \/ Parsed1(s).v = Null)) =>
         FailedWith(s, 500) /\ Len(calls[s]) = 1
    /\ (GotPass1(s) /\ Parsed1(s).ok /\ Parsed1(s).v.kind = "num") =>
         ~SentStatus(s, 200)

C10_Witness ==
  \E s \in GenSlots :
    /\ GotPass1(s) /\ Parsed1(s).ok /\ Parsed1(s).v = Null
    /\ FailedWith(s, 500)
    /\ Len(calls[s]) = 1

\* ------------------------------------------------------------------
\* Lenient JSON extraction on its own: safeParseJson and parseJSONLoosely
\* ------------------------------------------------------------------
\* longest text given to the extractors
MaxTextLen == 4

EmptyResponseMsg == "Empty AI response"
ClientNotValidJsonMsg == "AI response did not contain valid JSON."

\* parseJSONLoosely(raw) for a string raw: the empty string is falsy
parseJSONLoosely(text) ==
  IF text = <<>> THEN Throw(Err(EmptyResponseMsg, <<>>))
  ELSE LET strict == JsonParse(text)
       IN IF strict.ok THEN strict
          ELSE IF ~HasBraceSpan(text) THEN Throw(Err(ClientNotValidJsonMsg, <<>>))
          ELSE JsonParse(BraceSpan(text))

ParseAlphabet == {"{", "}", " ", "p", "null", "T", "F"}

\* a member token stands for text with braces of its own: it is used only
\* after an opening and before a closing brace
Enclosed(text) ==
  \A i \in 1..Len(text) :
    text[i] \in MemberToks =>
      /\ \E a \in 1..(i - 1) : text[a] = "{"
      /\ \E b \in (i + 1)..Len(text) : text[b] = "}"

ParseTexts ==
  {t \in UNION {[1..n -> ParseAlphabet] : n \in 0..MaxTextLen} : Enclosed(t)}

ParseInit ==
  /\ raw \in ParseTexts
  /\ serverParsed = NotRun
  /\ clientParsed = NotRun
  /\ apiKey = TRUE
  /\ ServerIdle
  /\ NormIdle
  /\ ClientIdle

\* the server extracts JSON from a model output
ServerParse ==
  /\ serverParsed = NotRun
  /\ serverParsed' = safeParseJson(raw)
  /\ UNCHANGED <<raw, clientParsed, serverVars, normVars, clientVars>>

\* the client extracts JSON from a jsonText
ClientParse ==
  /\ clientParsed = NotRun
  /\ clientParsed' = parseJSONLoosely(raw)
  /\ UNCHANGED <<raw, serverParsed, serverVars, normVars, clientVars>>

ParseNext == ServerParse \/ ClientParse

ParseSpec == ParseInit /\ [][ParseNext]_vars

\* positions of the braces, found without the regular expression
OpenBraces(text) == {i \in 1..Len(text) : text[i] = "{"}
CloseBraces(text) == {i \in 1..Len(text) : text[i] = "}"}
FirstOpen(text) == CHOOSE i \in OpenBraces(text) : \A j \in OpenBraces(text) : i <= j
LastClose(text) == CHOOSE i \in CloseBraces(text) : \A j \in CloseBraces(text) : j <= i
SpanExists(text) ==
  /\ OpenBraces(text) # {} /\ CloseBraces(text) # {}
  /\ FirstOpen(text) < LastClose(text)
BraceFree(text) == OpenBraces(text) = {} /\ CloseBraces(text) = {}

\* text is prose, one JSON object, prose, with no brace in the prose
WrappedObject(text, a, b) ==
  /\ 1 <= a /\ a < b /\ b <= Len(text)
  /\ text[a] = "{"
  /\ JsonParse(SubSeq(text, a, b)).ok
  /\ BraceFree(SubSeq(text, 1, a - 1))
  /\ BraceFree(SubSeq(text, b + 1, Len(text)))

\* the three cases of the extractor, for a result r of either extractor that
\* throws message noSpanMsg when it finds no brace span
LenientContract(text, r, noSpanMsgs) ==
  /\ JsonParse(text).ok => r = Ok(JsonParse(text).v)
  /\ (~JsonParse(text).ok /\ SpanExists(text)) =>
       r = JsonParse(SubSeq(text, FirstOpen(text), LastClose(text)))
  /\ \A a, b \in 1..Len(text) :
       WrappedObject(text, a, b) => r = Ok(JsonParse(SubSeq(text, a, b)).v)
  /\ (~JsonParse(text).ok /\ ~SpanExists(text)) =>
       /\ ~r.ok
       /\ r.e.msg \in noSpanMsgs
       /\ r.e.echo = <<>>

\* C11: the lenient JSON extractor (safeParseJson on the server,
\* parseJSONLoosely on the client) returns the strict parse of its input when
\* the input is valid JSON; otherwise it returns the parse of the substring
\* from the first "{" to the last "}", so that one JSON object wrapped in
\* brace-free prose is recovered; and it fails with its malformed-output
\* error when the input is not valid JSON and has no such brace span.
C11_LenientExtraction ==
  /\ serverParsed # NotRun => LenientContract(raw, serverParsed, {NotValidJsonMsg})
  /\ clientParsed # NotRun =>
       LenientContract(raw, clientParsed, {EmptyResponseMsg, ClientNotValidJsonMsg})

\* an object wrapped in prose was recovered by both extractors
C11_Witness ==
  /\ raw = <<"p", "{", "T", "}">>
  /\ serverParsed = Ok(Obj(<<Mem("courseTitle", Str("Algebra"))>>))
  /\ clientParsed = serverParsed

\* ------------------------------------------------------------------
\* Course normalization in the client: normalizeCourseJSON
\* ------------------------------------------------------------------
OptionCount == 4
MaxKeyPoints == 10
LastOptionIndex == 3

DefaultCourseTitle == Str("Untitled Course")
DefaultCourseDescription == Str("AI-generated course from the uploaded syllabus.")
Placeholders == <<Str("Option A"), Str("Option B"), Str("Option C"), Str("Option D")>>
PrimitiveWriteQuestionsMsg == "Cannot create property 'questions'"

IsArray(v) == v.kind = "arr"

\* Number.isInteger(v)
IsInteger(v) == v.kind = "num"

\* `${prefix}${n}`
Label(prefix, n) == Str(prefix \o ToString(n))

\* arr.slice(0, n)
Take(items, n) == SubSeq(items, 1, Min(Len(items), n))

\* the outcomes of the Fisher-Yates loop on four entries: every order
ShuffleOutcomes ==
  {p \in [1..OptionCount -> 1..OptionCount] :
     \A i, j \in 1..OptionCount : p[i] = p[j] => i = j}

\* shuffleArray(arr) when the loop's swaps produce the order perm; on fewer
\* than four entries the order of the entries present
shuffleArray(arr, perm) ==
  LET order == SelectSeq(perm, LAMBDA x : x <= Len(arr))
  IN [i \in 1..Len(arr) |-> arr[order[i]]]

\* a mutant of FindCorrect: the index is counted from one
FindCorrectOneBased(shuffled) ==
  IF \E i \in 1..Len(shuffled) : shuffled[i].correct
  THEN CHOOSE i \in 1..Len(shuffled) :
         shuffled[i].correct /\ \A j \in 1..(i - 1) : ~shuffled[j].correct
  ELSE -1

\* shuffled.findIndex((x) => x.correct), zero-based, -1 when none
FindCorrect(shuffled) ==
  IF \E i \in 1..Len(shuffled) : shuffled[i].correct
  THEN (CHOOSE i \in 1..Len(shuffled) :
          shuffled[i].correct /\ \A j \in 1..(i - 1) : ~shuffled[j].correct) - 1
  ELSE -1

\* a mutant of shuffleQuestionOptions: the index is not followed
shuffleQuestionOptionsKeepIndex(q, perm) ==
  LET items == Take(Or(Get(q, "options"), Arr(<<>>)).items, OptionCount)
  IN Obj(SetMember(q.members, "options", Arr(shuffleArray(items, perm))))

shuffleQuestionOptions(q, perm) ==
  LET items == Take(Or(Get(q, "options"), Arr(<<>>)).items, OptionCount)
      opts == [idx \in 1..Len(items) |->
                 [text |-> items[idx],
                  correct |-> Num(idx - 1) = Get(q, "correctAnswer")]]
      shuffled == shuffleArray(opts, perm)
  IN Obj(SetMember(
           SetMember(q.members, "options",
                     Arr([i \in 1..Len(shuffled) |-> shuffled[i].text])),
           "correctAnswer", Num(FindCorrect(shuffled))))

\* the lesson object built for lesson li of unit ui (both one-based)
normalizeLesson(l, ui, li) ==
  LET content == OptGet(l, "content")
      keyPoints == OptGet(l, "keyPoints")
  IN Obj(<<Mem("id", Or(OptGet(l, "id"),
                        Str("u" \o ToString(ui) \o "l" \o ToString(li)))),
           Mem("title", Or(OptGet(l, "title"), Label("Lesson ", li))),
           Mem("content", IF IsString(content) THEN content ELSE Str("")),
           Mem("keyPoints",
               IF IsArray(keyPoints)
               THEN Arr(Take(SelectSeq(keyPoints.items, Truthy), MaxKeyPoints))
               ELSE Arr(<<>>))>>)

normalizeUnit(u, ui) ==
  LET lessons == OptGet(u, "lessons")
  IN Obj(<<Mem("id", Or(OptGet(u, "id"), Label("u", ui))),
           Mem("title", Or(OptGet(u, "title"), Label("Unit ", ui))),
           Mem("description", Or(OptGet(u, "description"), Str(""))),
           Mem("lessons",
               IF IsArray(lessons)
               THEN Arr([li \in 1..Len(lessons.items) |->
                           normalizeLesson(lessons.items[li], ui, li)])
               ELSE Arr(<<>>))>>)

\* a mutant of normalizeOptions: a short options array is kept
normalizeOptionsKeepShort(options) ==
  IF IsArray(options) THEN Arr(Take(options.items, OptionCount))
  ELSE Arr(Placeholders)

\* the options of the question object built from a source question
normalizeOptions(options) ==
  IF IsArray(options) /\ Len(options.items) >= OptionCount
  THEN Arr(Take(options.items, OptionCount))
  ELSE Arr(Placeholders)

\* the question object built for question i (one-based), before the shuffle
normalizeQuestion(q, i) ==
  LET correctAnswer == OptGet(q, "correctAnswer")
  IN Obj(<<Mem("id", Or(OptGet(q, "id"), Label("q", i))),
           Mem("question", Or(OptGet(q, "question"), Label("Question ", i))),
           Mem("options", normalizeOptions(OptGet(q, "options"))),
           Mem("correctAnswer",
               IF /\ IsInteger(correctAnswer)
                  /\ correctAnswer.n >= 0
                  /\ correctAnswer.n <= LastOptionIndex
               THEN correctAnswer ELSE Num(0)),
           Mem("explanation", Or(OptGet(q, "explanation"), Str("")))>>)

\* { ...parsed }: the own enumerable properties; none for null and numbers
Spread(parsed) ==
  CASE parsed.kind = "obj" -> parsed.members
    [] parsed.kind = "arr" ->
         [i \in 1..Len(parsed.items) |-> Mem(ToString(i - 1), parsed.items[i])]
    [] parsed.kind \in {"null", "undefined", "num"} -> <<>>

\* the questions array a source value has, or none
SourceQuestions(parsed) ==
  LET finalTest == Or(Get(Obj(Spread(parsed)), "finalTest"), Obj(<<>>))
      questions == Get(finalTest, "questions")
  IN IF IsArray(questions) THEN questions.items ELSE <<>>

\* normalizeCourseJSON(parsed) when the shuffle of question i produces
\* perms[i]: the value returned or thrown (out) and the argument as the call
\* leaves it (arg); out.finalTest is the object parsed.finalTest when that is
\* truthy, so the assignment of questions is seen through both; an array
\* finalTest has no questions and gets an own property questions = []; the
\* assignment to a property of a number or string throws (module code is strict)
normalizeCourseJSON(parsed, perms) ==
  LET m0 == Spread(parsed)
      m1 == SetMember(m0, "courseTitle",
                      Or(Get(Obj(m0), "courseTitle"), DefaultCourseTitle))
      m2 == SetMember(m1, "courseDescription",
                      Or(Get(Obj(m1), "courseDescription"), DefaultCourseDescription))
      units0 == IF IsArray(Get(Obj(m2), "units"))
                THEN Get(Obj(m2), "units").items ELSE <<>>
      m3 == SetMember(m2, "units",
                      Arr([ui \in 1..Len(units0) |-> normalizeUnit(units0[ui], ui)]))
      shared == Truthy(Get(Obj(m3), "finalTest"))
      finalTest == Or(Get(Obj(m3), "finalTest"), Obj(<<>>))
      source == Get(finalTest, "questions")
      questions ==
        IF IsArray(source)
        THEN Arr([i \in 1..Len(source.items) |->
                    shuffleQuestionOptions(normalizeQuestion(source.items[i], i),
                                           perms[i])])
        ELSE Arr(<<>>)
      written ==
        IF IsArray(finalTest)
        THEN [kind |-> "arr", items |-> finalTest.items, questions |-> Arr(<<>>)]
        ELSE Obj(SetMember(finalTest.members, "questions", questions))
  IN IF finalTest.kind \notin {"obj", "arr"}
     THEN [out |-> Throw(Err(PrimitiveWriteQuestionsMsg, <<>>)), arg |-> parsed]
     ELSE [out |-> Ok(Obj(SetMember(m3, "finalTest", written))),
           arg |-> IF shared /\ parsed.kind = "obj"
                   THEN Obj(SetMember(parsed.members, "finalTest", written))
                   ELSE parsed]

\* most questions in a model output
MaxQuestions == 2
\* most questions of a course that is normalized a second time
MaxRenormQuestions == 1
\* largest quizCountTarget requested
MaxTarget == 1

\* a question with five options, the fifth marked correct
QuestionFive ==
  Obj(<<Mem("question", Str("question 5")),
        Mem("options", Arr(<<Str("a"), Str("b"), Str("c"), Str("d"), Str("e")>>)),
        Mem("correctAnswer", Num(4))>>)

\* a question with two options of the same text
QuestionDup ==
  Obj(<<Mem("id", Str("q3")),
        Mem("options", Arr(<<Str("yes"), Str("no"), Str("yes"), Str("maybe")>>)),
        Mem("correctAnswer", Num(0)), Mem("topic", Str("extra"))>>)

\* a question whose correctAnswer is a string, with no usable options
QuestionStr ==
  Obj(<<Mem("options", Str("a,b,c,d")), Mem("correctAnswer", Str("1"))>>)

\* a question whose four options read the same
QuestionSame ==
  Obj(<<Mem("options", Arr(<<Str("yes"), Str("yes"), Str("yes"), Str("yes")>>)),
        Mem("correctAnswer", Num(1))>>)

QuestionPool ==
  {QuestionA, QuestionB, QuestionFive, QuestionDup, QuestionStr, Null, Num(5),
   Obj(<<>>)}

QuestionLists ==
  {<<>>} \cup {<<q>> : q \in QuestionPool}
    \cup {[i \in 1..n |-> QuestionSame] : n \in 2..MaxQuestions}

\* a unit with a missing lesson and a lesson whose fields have wrong types
UnitC ==
  Obj(<<Mem("lessons",
            Arr(<<Null,
                  Obj(<<Mem("content", Num(5)),
                        Mem("keyPoints", Arr(<<Str("kp"), Null, Str("")>>))>>)>>))>>)

UnitsChoices ==
  {<<>>, <<Mem("units", Arr(<<UnitA, UnitB>>))>>,
   <<Mem("units", Arr(<<Null, Num(5), UnitC>>))>>, <<Mem("units", Num(5))>>,
   <<Mem("courseTitle", Str("Algebra")), Mem("units", Null)>>}

PlainFinalTests ==
  {<<>>, <<Mem("finalTest", Null)>>, <<Mem("finalTest", Num(0))>>,
   <<Mem("finalTest", Num(5))>>, <<Mem("finalTest", Str("quiz"))>>,
   <<Mem("finalTest", Arr(<<>>))>>, <<Mem("finalTest", Obj(<<>>))>>,
   <<Mem("finalTest", Obj(<<Mem("questions", Num(5))>>))>>,
   <<Mem("finalTest", Obj(<<Mem("questions", Arr(<<QuestionA>>)),
                            Mem("title", Str("Final"))>>))>>}

QuizFinalTests ==
  {<<Mem("finalTest", Obj(<<Mem("questions", Arr(l))>>))>> : l \in QuestionLists}

\* parsed values handed to normalizeCourseJSON
NormInputs ==
  {Null, Num(5), Arr(<<>>)}
    \cup {Obj(u \o f) : u \in UnitsChoices, f \in PlainFinalTests}
    \cup {Obj(<<Mem("units", Arr(<<UnitA>>))>> \o f) : f \in QuizFinalTests}

NormInit ==
  /\ nParsed \in NormInputs
  /\ nTarget \in 1..MaxTarget
  /\ nOut = NotRun
  /\ nArgAfter = nParsed
  /\ nAgain = NotRun
  /\ apiKey = TRUE
  /\ ServerIdle
  /\ ParseIdle
  /\ ClientIdle

\* the client normalizes a parsed course
Normalize ==
  /\ nOut = NotRun
  /\ \E perms \in [1..Len(SourceQuestions(nParsed)) -> ShuffleOutcomes] :
       LET r == normalizeCourseJSON(nParsed, perms)
       IN /\ nOut' = r.out
          /\ nArgAfter' = r.arg
  /\ UNCHANGED <<nParsed, nTarget, nAgain, serverVars, parseVars, clientVars>>

\* the returned course is normalized again
Renormalize ==
  /\ nOut # NotRun
  /\ nOut.ok
  /\ nAgain = NotRun
  /\ Len(SourceQuestions(nOut.v)) <= MaxRenormQuestions
  /\ \E perms \in [1..Len(SourceQuestions(nOut.v)) -> ShuffleOutcomes] :
       nAgain' = normalizeCourseJSON(nOut.v, perms).out
  /\ UNCHANGED <<nParsed, nTarget, nOut, nArgAfter, serverVars, parseVars, clientVars>>

NormNext == Normalize \/ Renormalize

NormSpec == NormInit /\ [][NormNext]_vars

\* ------------------------------------------------------------------
\* Properties of normalizeCourseJSON
\* ------------------------------------------------------------------
Normalized == nOut # NotRun
Renormalized == nAgain # NotRun

\* course.finalTest.questions, also when finalTest is an array
QuestionsOf(c) ==
  LET finalTest == Get(c, "finalTest")
  IN IF finalTest.kind = "arr" THEN finalTest.questions
     ELSE Get(finalTest, "questions")

SourceCount == Len(SourceQuestions(nParsed))
SourceQuestion(i) == SourceQuestions(nParsed)[i]
OutQuestion(i) == QuestionsOf(nOut.v).items[i]

OptionsOf(q) == Get(q, "options").items
AnswerOf(q) == Get(q, "correctAnswer")

\* q.options[q.correctAnswer] is text
PointsAt(q, text) ==
  /\ AnswerOf(q).kind = "num"
  /\ AnswerOf(q).n \in 0..(Len(OptionsOf(q)) - 1)
  /\ OptionsOf(q)[AnswerOf(q).n + 1] = text

\* how many entries of items equal text
Occurrences(items, text) == Cardinality({k \in 1..Len(items) : items[k] = text})

SameEntries(a, b) ==
  /\ Len(a) = Len(b)
  /\ \A k \in 1..Len(a) : Occurrences(a, a[k]) = Occurrences(b, a[k])

\* C12: for every parsed JSON value given to normalize (empty object, null
\* fields, missing arrays, a finalTest or array elements of the wrong type)
\* normalize does not throw and returns an object whose units is an array and
\* whose finalTest.questions is an array.
C12_NeverThrows ==
  Normalized =>
    /\ nOut.ok
    /\ IsArray(Get(nOut.v, "units"))
    /\ IsArray(QuestionsOf(nOut.v))

\* a question as the normalizer leaves it
WellFormedQuestion(q) ==
  /\ q.kind = "obj"
  /\ IsArray(Get(q, "options"))
  /\ Len(OptionsOf(q)) = 4
  /\ AnswerOf(q).kind = "num"
  /\ AnswerOf(q).n \in 0..3

\* valid course-shaped JSON: units and questions are arrays of objects
CourseShaped(x) ==
  /\ x.kind = "obj"
  /\ IsArray(Get(x, "units"))
  /\ \A i \in 1..Len(Get(x, "units").items) : Get(x, "units").items[i].kind = "obj"
  /\ Get(x, "finalTest").kind = "obj"
  /\ IsArray(Get(Get(x, "finalTest"), "questions"))
  /\ \A i \in 1..Len(SourceQuestions(x)) : WellFormedQuestion(SourceQuestions(x)[i])

\* C13 as stated: normalize is idempotent on valid course-shaped JSON, for
\* every outcome of the option shuffle normalize(normalize(x)) equals
\* normalize(x).
C13_Idempotent ==
  (Renormalized /\ CourseShaped(nParsed)) => nAgain = nOut

\* a question with the order of its options forgotten: the option texts with
\* their multiplicities, and the text that correctAnswer points at
Unordered(q) ==
  [rest |-> [i \in {k \in 1..Len(q.members) :
                      q.members[k].k \notin {"options", "correctAnswer"}} |->
               q.members[i]],
   texts |-> [t \in {OptionsOf(q)[k] : k \in 1..Len(OptionsOf(q))} |->
                Occurrences(OptionsOf(q), t)],
   correct |-> IF AnswerOf(q).kind = "num"
                  /\ AnswerOf(q).n \in 0..(Len(OptionsOf(q)) - 1)
               THEN OptionsOf(q)[AnswerOf(q).n + 1]
               ELSE Undefined]

\* a course with the order of every question's options forgotten
UnorderedCourse(c) ==
  [rest |-> [i \in {k \in 1..Len(c.members) :
                      c.members[k].k # "finalTest"} |-> c.members[i]],
   quizRest |-> [i \in {k \in 1..Len(Get(c, "finalTest").members) :
                          Get(c, "finalTest").members[k].k # "questions"} |->
                   Get(c, "finalTest").members[i]],
   questions |-> [i \in 1..Len(QuestionsOf(c).items) |->
                    Unordered(QuestionsOf(c).items[i])]]

\* C13 (amended): on valid course-shaped JSON a second normalize changes
\* nothing but the order of each question's options: every field other than
\* options and correctAnswer is equal, each question keeps the same option
\* texts, and correctAnswer points at the same text.
C13_IdempotentUpToOrder ==
  (Renormalized /\ CourseShaped(nParsed)) =>
    /\ nAgain.ok
    /\ UnorderedCourse(nAgain.v) = UnorderedCourse(nOut.v)

\* a course-shaped value was normalized twice and the two results differ
C13_Witness ==
  /\ Renormalized
  /\ CourseShaped(nParsed)
  /\ SourceCount = 1
  /\ nAgain.ok
  /\ nAgain # nOut

\* the source question has an options array of at least four entries
LongOptions(q) ==
  /\ q.kind = "obj"
  /\ IsArray(Get(q, "options"))
  /\ Len(OptionsOf(q)) >= 4

FirstFour(q) == SubSeq(OptionsOf(q), 1, 4)

\* the text of the option that is correct when the shuffle starts: the one
\* correctAnswer names among the first four, the first when it names none
PreShuffleCorrect(q) ==
  IF AnswerOf(q).kind = "num" /\ AnswerOf(q).n \in 0..3
  THEN FirstFour(q)[AnswerOf(q).n + 1]
  ELSE FirstFour(q)[1]

Distinct(items) ==
  \A i, j \in 1..Len(items) : items[i] = items[j] => i = j

\* C14 as stated: for every question with at least 4 options before the
\* shuffle and every shuffle outcome, after normalize the question has
\* exactly 4 options, exactly one of them has the text of the pre-shuffle
\* correct option, and options[correctAnswer] is that text.
C14_ExactlyOneCorrectText ==
  (Normalized /\ nOut.ok) =>
    \A i \in 1..SourceCount :
      LongOptions(SourceQuestion(i)) =>
        /\ Len(OptionsOf(OutQuestion(i))) = 4
        /\ Occurrences(OptionsOf(OutQuestion(i)),
                       PreShuffleCorrect(SourceQuestion(i))) = 1
        /\ PointsAt(OutQuestion(i), PreShuffleCorrect(SourceQuestion(i)))

\* C14 (amended): for every question with at least 4 options and every
\* shuffle outcome, after normalize the question has exactly 4 options, they
\* are the first four source options in some order, options[correctAnswer]
\* is the text of the pre-shuffle correct option, and that text occurs
\* exactly once when the first four option texts are distinct.
C14_CorrectTextFollowed ==
  (Normalized /\ nOut.ok) =>
    \A i \in 1..SourceCount :
      LongOptions(SourceQuestion(i)) =>
        /\ Len(OptionsOf(OutQuestion(i))) = 4
        /\ SameEntries(OptionsOf(OutQuestion(i)), FirstFour(SourceQuestion(i)))
        /\ PointsAt(OutQuestion(i), PreShuffleCorrect(SourceQuestion(i)))
        /\ Distinct(FirstFour(SourceQuestion(i))) =>
             Occurrences(OptionsOf(OutQuestion(i)),
                         PreShuffleCorrect(SourceQuestion(i))) = 1

\* a question with four distinct options came out in another order, its
\* correct text moved from index 2 to index 0
C14_Witness ==
  /\ Normalized
  /\ nOut.ok
  /\ SourceCount = 1
  /\ SourceQuestion(1) = QuestionA
  /\ OptionsOf(OutQuestion(1)) # OptionsOf(QuestionA)
  /\ AnswerOf(OutQuestion(1)) = Num(0)
  /\ OptionsOf(OutQuestion(1))[1] = Str("c")

\* C15: after normalize every question of finalTest.questions has exactly 4
\* options and an integer correctAnswer in [0,3], whatever the source
\* question held and whatever the shuffle outcome.
C15_FourOptionsValidAnswer ==
  (Normalized /\ nOut.ok) =>
    /\ Len(QuestionsOf(nOut.v).items) = SourceCount
    /\ \A i \in 1..SourceCount : WellFormedQuestion(OutQuestion(i))

\* a question with two options and correctAnswer 7 was normalized
C15_Witness ==
  /\ Normalized
  /\ nOut.ok
  /\ SourceCount = 1
  /\ SourceQuestion(1) = QuestionB
  /\ WellFormedQuestion(OutQuestion(1))

\* the source question has an options array of one to three entries
ShortOptions(q) ==
  /\ q.kind = "obj"
  /\ IsArray(Get(q, "options"))
  /\ Len(OptionsOf(q)) \in 1..3

\* C16: for a question whose source options array has k entries, 0 < k < 4,
\* normalize pads it to exactly 4: the k source options are kept and the
\* remaining 4 - k slots are filled with placeholder labels.
C16_ShortOptionsPadded ==
  (Normalized /\ nOut.ok) =>
    \A i \in 1..SourceCount :
      ShortOptions(SourceQuestion(i)) =>
        /\ Len(OptionsOf(OutQuestion(i))) = 4
        /\ \A k \in 1..Len(OptionsOf(SourceQuestion(i))) :
             Occurrences(OptionsOf(OutQuestion(i)), OptionsOf(SourceQuestion(i))[k]) >=
               Occurrences(OptionsOf(SourceQuestion(i)), OptionsOf(SourceQuestion(i))[k])
        /\ Cardinality({k \in 1..4 :
                          \E j \in 1..4 : OptionsOf(OutQuestion(i))[k] = Placeholders[j]})
             = 4 - Len(OptionsOf(SourceQuestion(i)))

\* C17: for a generation requested with quizCountTarget = N the normalized
\* course has at most N questions in finalTest.questions, whatever number of
\* questions the model returned.
C17_AtMostTargetQuestions ==
  (Normalized /\ nOut.ok) => Len(QuestionsOf(nOut.v).items) <= nTarget

\* C18: normalize leaves its argument unchanged, including the nested
\* finalTest object and its questions array.
C18_ArgumentUnchanged ==
  Normalized => nArgAfter = nParsed

\* ------------------------------------------------------------------
\* Concurrent generate-course and focused-course requests
\* ------------------------------------------------------------------
\* requests in flight at once
MaxConcurrent == 2
ConcSlots == 1..MaxConcurrent

ConcGenBodies ==
  { Obj(<<Mem("syllabusText", Text("syllabus", 5000))>>),
    Obj(<<Mem("syllabusText", Text("notes", 30000)), Mem("settings", SettingsA),
          Mem("model", Str("gpt-4o"))>>) }

ConcFocusedBodies ==
  { Obj(<<Mem("originalCourse", OutlineA), Mem("wrongAnswers", Arr(<<WrongA>>))>>) }

ConcReplies ==
  { UpstreamOk(Envelope(<<"{", "T", "U", "}">>, <<>>)),
    UpstreamOk(Envelope(<<"{", "U0", "X", "}">>, <<>>)),
    UpstreamOk(Envelope(<<"{", "F", "}">>, <<>>)),
    UpstreamHttpError(429, Obj(<<Mem("error", Obj(<<Mem("message", Str("Rate limit reached"))>>))>>)) }

ConcInit ==
  /\ ParseIdle
  /\ NormIdle
  /\ ClientIdle
  /\ apiKey \in BOOLEAN
  /\ pc = [s \in ConcSlots |-> "idle"]
  /\ route = [s \in ConcSlots |-> "none"]
  /\ body = [s \in ConcSlots |-> Undefined]
  /\ calls = [s \in ConcSlots |-> <<>>]
  /\ d1 = [s \in ConcSlots |-> Undefined]
  /\ courseObj = [s \in ConcSlots |-> Undefined]
  /\ d2 = [s \in ConcSlots |-> Undefined]
  /\ res = [s \in ConcSlots |-> <<>>]

\* any handler of any request in flight takes its next step
ConcNext ==
  \E s \in ConcSlots :
    \/ \E b \in ConcGenBodies : GenerateCourse(s, b)
    \/ \E b \in ConcFocusedBodies : FocusedCourse(s, b)
    \/ \E reply \in ConcReplies :
         \/ Pass1Reply(s, reply)
         \/ Pass2Reply(s, reply)
         \/ FocusedReply(s, reply)

ConcSpec == ConcInit /\ [][ConcNext]_vars

\* what a generate-course request with body b does when it runs alone and
\* its two model calls are answered by r1 and r2: the calls it makes,
\* whether each answer is taken, and the response, if it gets that far
GenerateAlone(b, key, r1, r2) ==
  LET syllabusText == Get(b, "syllabusText")
      model == Or(Get(b, "model"), OPENAI_MODEL)
      call1 == Call(model,
                    buildCourseOnlyPrompt(Slice(syllabusText, MaxPromptChars),
                                          Get(b, "settings")),
                    CourseMaxTokens, TRUE)
      x1 == openaiResult(r1)
      parsed1 == safeParseJson(extractText(x1.v))
      outline == outlineForQuiz(parsed1.v)
      call2 == Call(model, buildQuizOnlyPrompt(outline.v, Get(b, "settings")),
                    QuizMaxTokens, TRUE)
      x2 == openaiResult(r2)
      quiz == safeParseJson(extractText(x2.v))
      merged == Merge(parsed1.v, quiz.v)
      Fail(e, made, n) ==
        [calls |-> made, taken |-> n, res |-> ServerError(e, GenerateFallback)]
  IN IF ~IsString(syllabusText) \/ ~Truthy(syllabusText)
     THEN [calls |-> <<>>, taken |-> 0,
           res |-> BadRequest("syllabusText (string) is required")]
     ELSE IF ~key THEN Fail(Err(MissingKeyMsg, <<>>), <<>>, 0)
     ELSE IF ~x1.ok THEN Fail(x1.e, <<call1>>, 0)
     ELSE IF ~parsed1.ok THEN Fail(parsed1.e, <<call1>>, 1)
     ELSE IF ~outline.ok THEN Fail(outline.e, <<call1>>, 1)
     ELSE IF ~x2.ok THEN Fail(x2.e, <<call1, call2>>, 1)
     ELSE IF ~quiz.ok THEN Fail(quiz.e, <<call1, call2>>, 2)
     ELSE IF ~merged.ok THEN Fail(merged.e, <<call1, call2>>, 2)
     ELSE [calls |-> <<call1, call2>>, taken |-> 2,
           res |-> Status(200, [jsonText |-> JsonStringify(merged.v)])]

\* the same for a focused-course request and the answer r to its one call
FocusedAlone(b, key, r) ==
  LET prompt == buildFocusedPrompt(Get(b, "originalCourse"), Get(b, "wrongAnswers"),
                                   Get(b, "priorAnalysis"), Get(b, "sourceText"),
                                   Get(b, "settings"))
      call == Call(Or(Get(b, "model"), OPENAI_MODEL), prompt.v, FocusedMaxTokens, TRUE)
      x == openaiResult(r)
      Fail(e, made) ==
        [calls |-> made, taken |-> 0, res |-> ServerError(e, FocusedFallback)]
  IN IF ~Truthy(Get(b, "originalCourse"))
     THEN [calls |-> <<>>, taken |-> 0, res |-> BadRequest("originalCourse is required")]
     ELSE IF WrongAnswersRejected(b)
     THEN [calls |-> <<>>, taken |-> 0,
           res |-> BadRequest("wrongAnswers must be a non-empty array")]
     ELSE IF ~prompt.ok THEN Fail(prompt.e, <<>>)
     ELSE IF ~key THEN Fail(Err(MissingKeyMsg, <<>>), <<>>)
     ELSE IF ~x.ok THEN Fail(x.e, <<call>>)
     ELSE [calls |-> <<call>>, taken |-> 0,
           res |-> Status(200, [jsonText |-> extractText(x.v)])]

\* how many model answers request s has taken
Taken(s) ==
  IF d2[s] # Undefined THEN 2 ELSE IF d1[s] # Undefined THEN 1 ELSE 0

\* the answers r1, r2 agree with the ones request s has stored
OwnAnswers(s, r1, r2) ==
  /\ d1[s] # Undefined => r1 = UpstreamOk(d1[s])
  /\ d2[s] # Undefined => r2 = UpstreamOk(d2[s])

\* request s is where a request with its body running alone would be
AsAlone(s) ==
  CASE route[s] = "generate-course" ->
         \E r1, r2 \in ConcReplies :
           LET a == GenerateAlone(body[s], apiKey, r1, r2)
           IN /\ OwnAnswers(s, r1, r2)
              /\ pc[s] = "done" =>
                   /\ calls[s] = a.calls
                   /\ res[s] = <<a.res>>
                   /\ Taken(s) = a.taken
              /\ pc[s] = "pass1" =>
                   /\ calls[s] = SubSeq(a.calls, 1, 1)
                   /\ res[s] = <<>>
                   /\ Taken(s) = 0
              /\ pc[s] = "pass2" =>
                   /\ calls[s] = a.calls
                   /\ Len(a.calls) = 2
                   /\ res[s] = <<>>
                   /\ Taken(s) = 1
                   /\ courseObj[s] = safeParseJson(extractText(d1[s])).v
    [] route[s] = "focused-course" ->
         \E r \in ConcReplies :
           LET a == FocusedAlone(body[s], apiKey, r)
           IN /\ Taken(s) = 0
              /\ pc[s] = "done" => calls[s] = a.calls /\ res[s] = <<a.res>>
              /\ pc[s] = "focused" => calls[s] = a.calls /\ Len(a.calls) = 1 /\ res[s] = <<>>
    [] OTHER ->
         /\ pc[s] = "idle"
         /\ body[s] = Undefined
         /\ calls[s] = <<>>
         /\ res[s] = <<>>
         /\ Taken(s) = 0

\* the state of request s
Local(s) == <<pc[s], route[s], body[s], calls[s], d1[s], courseObj[s], d2[s], res[s]>>
LocalNext(s) ==
  <<pc'[s], route'[s], body'[s], calls'[s], d1'[s], courseObj'[s], d2'[s], res'[s]>>

\* a step changes the state of one request only, and never the credential
OneRequestSteps ==
  /\ apiKey' = apiKey
  /\ \A s, t \in ConcSlots :
       (Local(s) # LocalNext(s) /\ Local(t) # LocalNext(t)) => s = t

\* C19: concurrent pipeline requests do not interfere: for any interleaving
\* of the steps of two or more in-flight generate-course or focused-course
\* requests, each request's calls and response are those of the same request
\* running alone with the model responses to its own calls, and no step of
\* one request changes the state of another.
C19_NoInterference ==
  /\ [](\A s \in ConcSlots : AsAlone(s))
  /\ [][OneRequestSteps]_vars

\* two generate-course requests with different bodies interleaved their
\* passes and both completed, each with its own course
C19_Witness ==
  /\ pc[1] = "done" /\ pc[2] = "done"
  /\ route[1] = "generate-course" /\ route[2] = "generate-course"
  /\ body[1] # body[2]
  /\ d1[1] # d1[2]
  /\ Taken(1) = 2 /\ Taken(2) = 2
  /\ res[1] # res[2]
  /\ res[1][1].status = 200 /\ res[2][1].status = 200

\* ------------------------------------------------------------------
\* The client: file choice, generate, generateFocusedCourse, saved courses
\* ------------------------------------------------------------------
\* most courses generated in one run of the client
MaxGenerated == 1

MinSyllabusChars == 50
MinExtractChars == 20
ImageExts == {"jpg", "jpeg", "png"}
LocalExts == {"docx", "pdf"}
FileExts == {"pdf", "png"}

\* a string that holds model output (jsonText); the empty one is ""
StringOf(toks) == IF toks = <<>> THEN Str("") ELSE [kind |-> "raw", toks |-> toks]

\* a text with pad characters of whitespace that normalizeText removes
Padded(id, len, pad) == [kind |-> "text", id |-> id, len |-> len, pad |-> pad]

\* normalizeText(s): line ends unified, runs of blank lines and of spaces
\* collapsed, the ends trimmed
normalizeText(t) == IF t.kind = "text" THEN Text(t.id, t.len - t.pad) ELSE t

\* what fetch and r.json() gave postJSON
ResponseOk(d) == [kind |-> "ok", d |-> d]
ResponseError(status, d) == [kind |-> "http_error", status |-> status, d |-> d]
NetworkFailure == [kind |-> "network_error"]

\* postJSON(url, body) once the fetch has settled
postJSON(reply) ==
  CASE reply.kind = "network_error" -> Throw(Err("Failed to fetch", <<>>))
    [] reply.kind = "http_error" ->
         Throw(Err(Or(Or(OptGet(reply.d, "error"), OptGet(reply.d, "message")),
                      Str("Request failed (" \o ToString(reply.status) \o ")")).s,
                   <<>>))
    [] reply.kind = "ok" -> Ok(reply.d)

\* parseJSONLoosely(raw) for any value raw
parseValueLoosely(v) ==
  IF ~Truthy(v) \/ ~(IsString(v) \/ v.kind = "raw")
  THEN Throw(Err(EmptyResponseMsg, <<>>))
  ELSE IF v.kind = "raw" THEN parseJSONLoosely(v.toks)
  ELSE Throw(Err(ClientNotValidJsonMsg, <<>>))

\* d.jsonText || d.text || ""
ResponseText(d) == Or(Or(Get(d, "jsonText"), Get(d, "text")), Str(""))

CreatedAt == Str("11/2/2026")

\* the course generate() builds from a normalized value
GeneratedCourse(parsed, id, text) ==
  Obj(SetMember(SetMember(SetMember(parsed.members, "id", Num(id)),
                          "createdAt", CreatedAt),
                "sourceText", text))

\* course.sourceText || etxt || ""
SourceTextOf(c, extracted) == Or(Or(Get(c, "sourceText"), extracted), Str(""))

\* the course generateFocusedCourse() builds from a normalized value
FocusedReviewCourse(parsed, id, prior, extracted) ==
  Obj(SetMember(
        SetMember(SetMember(SetMember(parsed.members, "id", Num(id)),
                            "createdAt", CreatedAt),
                  "courseTitle",
                  Str(Or(Get(parsed, "courseTitle"), Get(prior, "courseTitle")).s
                        \o " (Focused Review)")),
        "sourceText", SourceTextOf(prior, extracted)))

\* the body generateFocusedCourse() posts
FocusedRequest(c, wrong, analysis, extracted) ==
  Obj(<<Mem("model", Str("gpt-4.1")),
        Mem("originalCourse",
            Obj(<<Mem("courseTitle", Get(c, "courseTitle")),
                  Mem("courseDescription", Get(c, "courseDescription")),
                  Mem("units", Get(c, "units"))>>)),
        Mem("wrongAnswers", Arr(wrong)),
        Mem("priorAnalysis", Str(analysis)),
        Mem("sourceText", SourceTextOf(c, extracted)),
        Mem("settings", Obj(<<Mem("minimumLessonWords", Num(450)),
                             Mem("quizCountTarget", Num(DefaultFocusedQuizCount))>>))>>)

\* a course generated and saved in an earlier run
CourseA ==
  GeneratedCourse(
    normalizeCourseJSON(JsonParse(<<"{", "T", "U", "F", "}">>).v,
                        <<[i \in 1..OptionCount |-> i]>>).out.v,
    0, Text("syllabus", 5000))

\* the test of the current course was submitted with one wrong answer
SessionSubmitted ==
  [uIdx |-> 0, lIdx |-> 0, inTest |-> TRUE, ans |-> <<0>>, submitted |-> TRUE,
   score |-> [pct |-> 0, correct |-> 0, total |-> 1],
   analysis |-> "weak on unit 1"]

ClientTexts == { <<"p", "{", "T", "U", "}">>, <<"{", "Fx", "}">>, <<"p", "p">> }

\* answers of the backend to generate-course and focused-course
CourseResponses ==
  { ResponseOk(Obj(<<Mem("jsonText", StringOf(t))>>)) : t \in ClientTexts } \cup
  { ResponseError(500, Obj(<<Mem("error", Str("Model output was not valid JSON."))>>)) }

\* answers of the backend to ocr-image
OcrResponses ==
  { ResponseOk(Obj(<<Mem("text", Padded("scan", 5000, 12))>>)),
    ResponseOk(Obj(<<Mem("text", Padded("scan", 55, 10))>>)),
    NetworkFailure }

\* outcomes of the local text extraction: a text or an exception
ExtractOutcomes ==
  { Ok(Text("doc", 5000)), Ok(Text("doc", 10)),
    Throw(Err("Invalid PDF structure", <<>>)) }

ClientInit ==
  /\ apiKey = TRUE
  /\ ServerIdle
  /\ ParseIdle
  /\ NormIdle
  /\ user \in {"none"} \cup Emails
  /\ course \in {Null, CourseA}
  /\ allCourses = [e \in Emails |-> IF course = Null THEN <<>> ELSE <<CourseA>>]
  /\ lastWrong = IF course = Null THEN <<>> ELSE <<WrongA>>
  /\ session = IF lastWrong = <<>> THEN SessionReset ELSE SessionSubmitted
  /\ page = IF course = Null THEN "home" ELSE "course"
  /\ file = "none"
  /\ etxt = Str("")
  /\ extracting = FALSE
  /\ hPending = <<>>
  /\ generating = FALSE
  /\ remediating = FALSE
  /\ gStatus = ""
  /\ gErr = ""
  /\ now = 1
  /\ genPc = "idle"
  /\ genCtx = Null
  /\ focPc = "idle"
  /\ focCtx = Null
  /\ analyzing = FALSE
  /\ aPending = <<>>

notClientVars == <<serverVars, parseVars, normVars>>

\* the state of the analysis requests
analysisVars == <<analyzing, aPending>>

\* go(p): the page changes and the error and status lines are cleared
go(p) ==
  /\ page' = p
  /\ gErr' = ""
  /\ gStatus' = ""

\* addCourse(c) as captured by a handler created when u was the user
addCourse(c, u) ==
  allCourses' = IF u = "none" THEN allCourses
                ELSE [allCourses EXCEPT ![u] = Append(@, c)]

\* a mutant of LoadCourse: the wrong answers of the last test are kept
LoadCourseKeepsWrong(c) ==
  /\ course' = c
  /\ session' = SessionReset
  /\ lastWrong' = lastWrong
  /\ go("course")

\* setCourse(c) with the reset of the test session, then go("course")
LoadCourse(c) ==
  /\ course' = c
  /\ session' = SessionReset
  /\ lastWrong' = <<>>
  /\ go("course")

\* extractions awaited at once
MaxExtractions == 1

UpperExt(ext) == IF ext = "pdf" THEN "PDF" ELSE "DOCX"

\* handleFile(f) up to its await: the file is taken and, for a PDF or DOCX,
\* the local extraction starts
handleFile(ext) ==
  /\ page = "create"
  /\ ext \in LocalExts => Len(hPending) < MaxExtractions
  /\ file' = ext
  /\ etxt' = Str("")
  /\ gErr' = ""
  /\ extracting' = IF ext \in LocalExts THEN TRUE ELSE extracting
  /\ hPending' = IF ext \in LocalExts THEN Append(hPending, ext) ELSE hPending
  /\ gStatus' = IF ext = "pdf" THEN "Extracting text from PDF locally..."
                ELSE IF ext = "docx" THEN "Extracting text from DOCX locally..."
                ELSE ""
  /\ UNCHANGED <<user, allCourses, course, page, generating, remediating, session,
                 lastWrong, now, genPc, genCtx, focPc, focCtx>>
  /\ UNCHANGED notClientVars
  /\ UNCHANGED analysisVars

\* handleFile after the local extraction of pending file i settled
handleFileSettled(i, outcome) ==
  /\ i \in 1..Len(hPending)
  /\ hPending' = SubSeq(hPending, 1, i - 1) \o SubSeq(hPending, i + 1, Len(hPending))
  /\ extracting' = FALSE
  /\ gStatus' = ""
  /\ IF ~outcome.ok
     THEN /\ gErr' = UpperExt(hPending[i]) \o " read error: " \o outcome.e.msg
          /\ UNCHANGED etxt
     ELSE IF ~Truthy(outcome.v) \/ outcome.v.len < MinExtractChars
     THEN /\ gErr' = UpperExt(hPending[i]) \o
                       " read error: Very little text extracted. If scanned, use JPG/PNG."
          /\ UNCHANGED etxt
     ELSE /\ etxt' = outcome.v
          /\ UNCHANGED gErr
  /\ UNCHANGED <<user, allCourses, course, page, file, generating, remediating,
                 session, lastWrong, now, genPc, genCtx, focPc, focCtx>>
  /\ UNCHANGED notClientVars
  /\ UNCHANGED analysisVars

\* a mutant of generateFailed: the catch block also drops the current course
generateFailedDropsCourse(msg) ==
  /\ gErr' = "Error: " \o msg
  /\ gStatus' = ""
  /\ generating' = FALSE
  /\ genPc' = "idle"
  /\ genCtx' = Null
  /\ course' = Null
  /\ UNCHANGED <<allCourses, page, session, lastWrong, now>>

\* generate(): catch (e) { setGErr("Error: " + e.message) } finally { ... }
generateFailed(msg) ==
  /\ gErr' = "Error: " \o msg
  /\ gStatus' = ""
  /\ generating' = FALSE
  /\ genPc' = "idle"
  /\ genCtx' = Null
  /\ UNCHANGED <<course, allCourses, page, session, lastWrong, now>>

\* generate() from the length check of the text to the await of postJSON
generateFromText(text, u) ==
  IF ~Truthy(text) \/ text.len < MinSyllabusChars
  THEN generateFailed("Extracted text is too short to generate a useful course.")
  ELSE /\ genPc' = "course"
       /\ genCtx' = [user |-> u, text |-> text]
       /\ generating' = TRUE
       /\ gErr' = ""
       /\ gStatus' = "Generating a detailed course (full coverage)..."
       /\ UNCHANGED <<course, allCourses, page, session, lastWrong, now>>

\* the Generate Course button is shown and not disabled:
\* disabled={generating || !file}
GenerateEnabled == page = "create" /\ ~(generating \/ file = "none")

\* the Generate button is clicked: generate() up to its first await
generate ==
  /\ GenerateEnabled
  /\ now <= MaxGenerated
  /\ UNCHANGED <<user, file, etxt, extracting, hPending, remediating, focPc, focCtx>>
  /\ UNCHANGED notClientVars
  /\ UNCHANGED analysisVars
  /\ IF file = "none"
     THEN /\ gErr' = "Please upload a file."
          /\ UNCHANGED <<course, allCourses, page, session, lastWrong, now,
                         generating, gStatus, genPc, genCtx>>
     ELSE IF Truthy(etxt) THEN generateFromText(etxt, user)
     ELSE IF file \notin ImageExts
     THEN generateFailed("Unsupported file type. Use PDF, DOCX, JPG, or PNG.")
     ELSE /\ genPc' = "ocr"
          /\ genCtx' = [user |-> user, text |-> Str("")]
          /\ generating' = TRUE
          /\ gErr' = ""
          /\ gStatus' = "Extracting text from image (backend OCR)..."
          /\ UNCHANGED <<course, allCourses, page, session, lastWrong, now>>

\* generate() after the OCR request settled
generateOcrSettled(reply) ==
  /\ genPc = "ocr"
  /\ UNCHANGED <<user, file, extracting, hPending, remediating, focPc, focCtx>>
  /\ UNCHANGED notClientVars
  /\ UNCHANGED analysisVars
  /\ LET d == postJSON(reply)
     IN IF ~d.ok
        THEN /\ generateFailed(d.e.msg)
             /\ UNCHANGED etxt
        ELSE LET text == normalizeText(Or(Get(d.v, "text"), Str("")))
             IN /\ etxt' = text
                /\ generateFromText(text, genCtx.user)

\* generate() after the generate-course request settled
generateSettled(reply) ==
  /\ genPc = "course"
  /\ UNCHANGED <<user, file, etxt, extracting, hPending, remediating, focPc, focCtx>>
  /\ UNCHANGED notClientVars
  /\ UNCHANGED analysisVars
  /\ LET d == postJSON(reply)
         parsed == parseValueLoosely(ResponseText(d.v))
     IN IF ~d.ok THEN generateFailed(d.e.msg)
        ELSE IF ~parsed.ok THEN generateFailed(parsed.e.msg)
        ELSE \E perms \in [1..Len(SourceQuestions(parsed.v)) -> ShuffleOutcomes] :
               LET normalized == normalizeCourseJSON(parsed.v, perms).out
               IN IF ~normalized.ok THEN generateFailed(normalized.e.msg)
                  ELSE LET c == GeneratedCourse(normalized.v, now, genCtx.text)
                       IN /\ LoadCourse(c)
                          /\ addCourse(c, genCtx.user)
                          /\ now' = now + 1
                          /\ generating' = FALSE
                          /\ genPc' = "idle"
                          /\ genCtx' = Null

\* the Generate Focused Review Course button is shown (in the result of a
\* submitted test with lastWrong.length > 0) and not disabled:
\* disabled={remediating}
FocusedEnabled ==
  /\ page = "course"
  /\ course # Null
  /\ session.inTest
  /\ session.submitted
  /\ lastWrong # <<>>
  /\ ~remediating

\* a mutant of generateFocusedCourse: the button is shown with every submitted
\* test and the handler does not look at lastWrong
generateFocusedCourseUnchecked ==
  /\ page = "course" /\ course # Null /\ session.inTest /\ session.submitted
  /\ ~remediating
  /\ now <= MaxGenerated
  /\ UNCHANGED <<user, allCourses, course, page, file, etxt, extracting, hPending, generating,
                 gStatus, session, lastWrong, now, genPc, genCtx>>
  /\ UNCHANGED notClientVars
  /\ UNCHANGED analysisVars
  /\ remediating' = TRUE
  /\ gErr' = ""
  /\ focPc' = "focused"
  /\ focCtx' = [user |-> user, course |-> course, etxt |-> etxt,
                request |-> FocusedRequest(course, lastWrong, session.analysis, etxt)]

\* the focused-course button is clicked: generateFocusedCourse() up to its await
generateFocusedCourse ==
  /\ FocusedEnabled
  /\ now <= MaxGenerated
  /\ UNCHANGED <<user, allCourses, course, page, file, etxt, extracting, hPending, generating,
                 gStatus, session, lastWrong, now, genPc, genCtx>>
  /\ UNCHANGED notClientVars
  /\ UNCHANGED analysisVars
  /\ IF course = Null \/ lastWrong = <<>>
     THEN UNCHANGED <<remediating, gErr, focPc, focCtx>>
     ELSE /\ remediating' = TRUE
          /\ gErr' = ""
          /\ focPc' = "focused"
          /\ focCtx' = [user |-> user, course |-> course, etxt |-> etxt,
                        request |-> FocusedRequest(course, lastWrong,
                                                   session.analysis, etxt)]

\* generateFocusedCourse(): catch (e) { setGErr(...) } finally { ... }
focusedFailed(msg) ==
  /\ gErr' = "Focused-course generation failed: " \o msg
  /\ remediating' = FALSE
  /\ focPc' = "idle"
  /\ focCtx' = Null
  /\ UNCHANGED <<course, allCourses, page, gStatus, session, lastWrong, now>>

\* generateFocusedCourse() after the focused-course request settled
generateFocusedCourseSettled(reply) ==
  /\ focPc = "focused"
  /\ UNCHANGED <<user, file, etxt, extracting, hPending, generating, genPc, genCtx>>
  /\ UNCHANGED notClientVars
  /\ UNCHANGED analysisVars
  /\ LET d == postJSON(reply)
         parsed == parseValueLoosely(ResponseText(d.v))
     IN IF ~d.ok THEN focusedFailed(d.e.msg)
        ELSE IF ~parsed.ok THEN focusedFailed(parsed.e.msg)
        ELSE \E perms \in [1..Len(SourceQuestions(parsed.v)) -> ShuffleOutcomes] :
               LET normalized == normalizeCourseJSON(parsed.v, perms).out
               IN IF ~normalized.ok THEN focusedFailed(normalized.e.msg)
                  ELSE LET c == FocusedReviewCourse(normalized.v, now, focCtx.course,
                                                    focCtx.etxt)
                       IN /\ LoadCourse(c)
                          /\ addCourse(c, focCtx.user)
                          /\ now' = now + 1
                          /\ remediating' = FALSE
                          /\ focPc' = "idle"
                          /\ focCtx' = Null

\* a saved course is clicked on the page of the user's courses
OpenSavedCourse(i) ==
  /\ page = "mycourses"
  /\ user # "none"
  /\ i \in 1..Len(allCourses[user])
  /\ LoadCourse(allCourses[user][i])
  /\ UNCHANGED <<user, allCourses, file, etxt, extracting, hPending, generating, remediating,
                 now, genPc, genCtx, focPc, focCtx>>
  /\ UNCHANGED notClientVars
  /\ UNCHANGED analysisVars

\* pages reached by the navigation bar and the Sign In button
NavPages == {"home", "mycourses", "create", "signin"}

\* a navigation button is clicked
Navigate(p) ==
  /\ p \in NavPages
  /\ p = "signin" => user = "none"
  /\ go(p)
  /\ UNCHANGED <<user, allCourses, course, file, etxt, extracting, hPending, generating,
                 remediating, session, lastWrong, now, genPc, genCtx, focPc, focCtx>>
  /\ UNCHANGED notClientVars
  /\ UNCHANGED analysisVars

\* signIn() with valid credentials
signIn(email) ==
  /\ page = "signin"
  /\ user = "none"
  /\ user' = email
  /\ go("home")
  /\ UNCHANGED <<allCourses, course, file, etxt, extracting, hPending, generating, remediating,
                 session, lastWrong, now, genPc, genCtx, focPc, focCtx>>
  /\ UNCHANGED notClientVars
  /\ UNCHANGED analysisVars

\* the Sign Out button
SignOut ==
  /\ user # "none"
  /\ user' = "none"
  /\ go("home")
  /\ UNCHANGED <<allCourses, course, file, etxt, extracting, hPending, generating, remediating,
                 session, lastWrong, now, genPc, genCtx, focPc, focCtx>>
  /\ UNCHANGED notClientVars
  /\ UNCHANGED analysisVars

ClientNext ==
  \/ \E ext \in FileExts : handleFile(ext)
  \/ \E i \in 1..MaxExtractions, outcome \in ExtractOutcomes : handleFileSettled(i, outcome)
  \/ generate
  \/ \E reply \in OcrResponses : generateOcrSettled(reply)
  \/ \E reply \in CourseResponses : generateSettled(reply)
  \/ generateFocusedCourse
  \/ \E reply \in CourseResponses : generateFocusedCourseSettled(reply)
  \/ \E i \in 1..MaxGenerated + 1 : OpenSavedCourse(i)
  \/ \E p \in NavPages : Navigate(p)
  \/ \E email \in Emails : signIn(email)
  \/ SignOut

ClientSpec == ClientInit /\ [][ClientNext]_vars

\* ------------------------------------------------------------------
\* Properties of the client
\* ------------------------------------------------------------------
\* c is a whole course: normalized and stamped by the flow that built it
CompleteCourse(c) ==
  /\ c.kind = "obj"
  /\ Get(c, "id").kind = "num"
  /\ Get(c, "createdAt") = CreatedAt
  /\ HasKey(c, "sourceText")
  /\ Truthy(Get(c, "courseTitle"))
  /\ Truthy(Get(c, "courseDescription"))
  /\ IsArray(Get(c, "units"))
  /\ \A i \in 1..Len(Get(c, "units").items) :
       IsArray(Get(Get(c, "units").items[i], "lessons"))
  /\ IsArray(QuestionsOf(c))
  /\ \A i \in 1..Len(QuestionsOf(c).items) : WellFormedQuestion(QuestionsOf(c).items[i])

SavedCourses == UNION {{allCourses[e][i] : i \in 1..Len(allCourses[e])} : e \in Emails}

\* the current course and every saved course is a whole course
OnlyCompleteCourses ==
  /\ course # Null => CompleteCourse(course)
  /\ \A c \in SavedCourses : CompleteCourse(c)

\* a pending generate() or generateFocusedCourse() ends in this step
FlowEnds ==
  \/ genPc # "idle" /\ genPc' = "idle"
  \/ focPc # "idle" /\ focPc' = "idle"

\* what a step may do to the current course and the saved courses
CourseSteps ==
  /\ gErr' # "" => UNCHANGED <<course, allCourses, page, session, lastWrong>>
  /\ (FlowEnds /\ course' = course) => gErr' # ""
  /\ course' # course =>
       \/ FlowEnds /\ CompleteCourse(course') /\ Get(course', "id") = Num(now)
       \/ course' \in SavedCourses /\ UNCHANGED allCourses
  /\ allCourses' # allCourses =>
       /\ FlowEnds
       /\ course' # course
       /\ \E e \in Emails : allCourses' = [allCourses EXCEPT ![e] = Append(@, course')]

\* C20: a course becomes the current course and is added to the saved
\* courses only in the step that ends a generation flow with success, after
\* parsing and normalization, so the current and saved courses are always
\* whole courses; when generate or generateFocusedCourse fails at any step
\* the current course, the saved courses, the page and the test session are
\* left unchanged and an error message is set.
C20_CourseOnlyOnSuccess ==
  /\ []OnlyCompleteCourses
  /\ [][CourseSteps]_vars

\* generate() failed in the normalization of a parsed reply while a course
\* was loaded and saved: the course is still there and the error is shown
C20_Witness ==
  /\ gErr = "Error: " \o PrimitiveWriteQuestionsMsg
  /\ genPc = "idle"
  /\ ~generating
  /\ course = CourseA
  /\ lastWrong = <<WrongA>>
  /\ user \in Emails
  /\ allCourses[user] = <<CourseA>>

\* ------------------------------------------------------------------
\* Properties of the prompts
\* ------------------------------------------------------------------
\* the units of a course or outline, and the lessons of a unit
UnitsOf(c) == IF IsArray(Get(c, "units")) THEN Get(c, "units").items ELSE <<>>
LessonsOfUnit(u) == IF IsArray(OptGet(u, "lessons")) THEN Get(u, "lessons").items ELSE <<>>

\* some lesson of c carries a body: content text or key points
CarriesLessonBodies(c) ==
  \E i \in 1..Len(UnitsOf(c)) :
    \E j \in 1..Len(LessonsOfUnit(UnitsOf(c)[i])) :
      LET l == LessonsOfUnit(UnitsOf(c)[i])[j]
      IN Truthy(OptGet(l, "content")) \/ Truthy(OptGet(l, "keyPoints"))

\* the prompt the focused-course handler builds from the body the client posts
FocusedPromptFor(request) ==
  buildFocusedPrompt(Get(request, "originalCourse"), Get(request, "wrongAnswers"),
                     Get(request, "priorAnalysis"), Get(request, "sourceText"),
                     Get(request, "settings"))

\* C21: the outline the client posts to focused-course, and the prompt the
\* backend builds from it, carry the prior course's title, description and
\* units with the lesson bodies dropped: no lesson content of the prior
\* course is in the request or in the prompt.
C21_OutlineDropsLessonBodies ==
  focPc = "focused" =>
    LET outline == Get(focCtx.request, "originalCourse")
        prompt == FocusedPromptFor(focCtx.request)
    IN /\ Get(outline, "courseTitle") = Get(focCtx.course, "courseTitle")
       /\ Get(outline, "courseDescription") = Get(focCtx.course, "courseDescription")
       /\ Len(UnitsOf(outline)) = Len(UnitsOf(focCtx.course))
       /\ ~CarriesLessonBodies(outline)
       /\ prompt.ok
       /\ ~CarriesLessonBodies(prompt.v.originalCourse)

\* the keys of an object, in property order
KeysOf(o) == [i \in 1..Len(o.members) |-> o.members[i].k]

\* o has exactly the keys id and title, then the keys rest, with the id and
\* title of src
IdAndTitleOf(o, src, rest) ==
  /\ o.kind = "obj"
  /\ KeysOf(o) = <<"id", "title">> \o rest
  /\ Get(o, "id") = Get(src, "id")
  /\ Get(o, "title") = Get(src, "title")

\* outline is the minimal outline of the pass-1 course c
MinimalOutlineOf(outline, c) ==
  /\ outline.kind = "obj"
  /\ KeysOf(outline) = <<"courseTitle", "units">>
  /\ Get(outline, "courseTitle") = Get(c, "courseTitle")
  /\ IsArray(Get(outline, "units"))
  /\ Len(UnitsOf(outline)) = Len(UnitsOf(c))
  /\ \A i \in 1..Len(UnitsOf(c)) :
       LET o == UnitsOf(outline)[i]
           u == UnitsOf(c)[i]
       IN /\ IdAndTitleOf(o, u, <<"lessons">>)
          /\ IsArray(Get(o, "lessons"))
          /\ Len(LessonsOfUnit(o)) = Len(LessonsOfUnit(u))
          /\ \A j \in 1..Len(LessonsOfUnit(u)) :
               IdAndTitleOf(LessonsOfUnit(o)[j], LessonsOfUnit(u)[j], <<>>)

\* the request made both calls of generate-course
MadePass2Call(s) == s \in GenSlots /\ Len(calls[s]) >= 2

\* C22: the outline in the pass-2 prompt of generate-course holds only the
\* course title and, for each pass-1 unit in order, its id, its title and,
\* for each of its lessons in order, the lesson's id and title; the content
\* and keyPoints of the pass-1 lessons are not in the pass-2 prompt.
C22_MinimalOutline ==
  \A s \in Slots :
    MadePass2Call(s) =>
      LET outline == calls[s][2].input.courseOutline
      IN /\ MinimalOutlineOf(outline, Parsed1(s).v)
         /\ ~CarriesLessonBodies(outline)

\* pass 1 returned units with and without lessons, one lesson with a body,
\* and the pass-2 call was made
C22_Witness ==
  \E s \in Slots :
    /\ MadePass2Call(s)
    /\ CarriesLessonBodies(Parsed1(s).v)
    /\ Len(UnitsOf(Parsed1(s).v)) = 2
    /\ Len(LessonsOfUnit(UnitsOf(calls[s][2].input.courseOutline)[1])) = 1

\* t is the prefix of the text full of length min(len, n)
PrefixOf(t, full, n) ==
  /\ t.kind = "text"
  /\ t.id = full.id
  /\ t.len = (IF full.len <= n THEN full.len ELSE n)

RECURSIVE JoinedLen(_)
\* characters of the items of an array joined by commas
JoinedLen(items) ==
  IF items = <<>> THEN 0
  ELSE IF Len(items) = 1 THEN items[1].len
  ELSE items[1].len + 1 + JoinedLen(Tail(items))

\* characters a value takes when a template literal embeds it
EmbeddedLen(v) ==
  CASE v.kind = "text" -> v.len
    [] v.kind = "str" /\ v.s = "" -> 0
    [] v.kind = "arr" -> JoinedLen(v.items)

\* the request made its first call
MadeCall(s) == Len(calls[s]) >= 1

\* C23: the syllabus text in the pass-1 prompt of generate-course and the
\* source text in the prompt of focused-course are the prefix of the caller's
\* text of length min(len, 24000): never longer than the budget, and the
\* caller's text itself when that is within the budget.
C23_PromptTextWithinBudget ==
  \A s \in Slots :
    /\ (s \in GenSlots /\ MadeCall(s)) =>
         LET embedded == calls[s][1].input.syllabusText
         IN /\ PrefixOf(embedded, Get(body[s], "syllabusText"), MaxPromptChars)
            /\ EmbeddedLen(embedded) <= MaxPromptChars
    /\ (s \in FocusedSlots /\ MadeCall(s)) =>
         LET embedded == calls[s][1].input.sourceText
             sourceText == Get(body[s], "sourceText")
         IN /\ EmbeddedLen(embedded) <= MaxPromptChars
            /\ sourceText.kind = "text" =>
                 PrefixOf(embedded, sourceText, MaxPromptChars)

\* ------------------------------------------------------------------
\* Double arithmetic: Math.round((correct / qs.length) * 100)
\* ------------------------------------------------------------------
\* significant binary digits of a double
MantissaBits == 53

\* a double is [bits, exp]: the integer with the binary digits bits (least
\* significant first), times 2^exp

RECURSIVE RemainderAfter(_, _, _)
\* what is left of r/n after its first k binary digits after the point, for
\* r < n (six digits at a step while that many remain)
RemainderAfter(r, n, k) ==
  IF k = 0 THEN r
  ELSE IF k >= 6 THEN RemainderAfter((64 * r) % n, n, k - 6)
  ELSE RemainderAfter((2 * r) % n, n, k - 1)

\* the first k binary digits of r/n after the point, for r < n
Expand(r, n, k) ==
  [i \in 1..k |-> IF 2 * RemainderAfter(r, n, i - 1) >= n THEN 1 ELSE 0]

RECURSIVE LeadingZeros(_, _)
\* zero digits of r/n after the point before its first one, for 0 < r < n
LeadingZeros(r, n) == IF 2 * r >= n THEN 0 ELSE 1 + LeadingZeros(2 * r, n)

RECURSIVE Pow2(_)
Pow2(k) == IF k = 0 THEN 1 ELSE 2 * Pow2(k - 1)

Reverse(bits) == [i \in 1..Len(bits) |-> bits[Len(bits) + 1 - i]]

\* digit i of an integer given by its digits, least significant first
BitAt(bits, i) == IF i <= Len(bits) THEN bits[i] ELSE 0

\* the carry into digit i of a + b + carry
CarryInto(a, b, carry, i) ==
  \/ carry = 1 /\ \A k \in 1..i - 1 : BitAt(a, k) + BitAt(b, k) >= 1
  \/ \E j \in 1..i - 1 :
       /\ BitAt(a, j) + BitAt(b, j) = 2
       /\ \A k \in j + 1..i - 1 : BitAt(a, k) + BitAt(b, k) >= 1

\* the sum of two integers given by their digits, and a carry
AddBits(a, b, carry) ==
  LET len == IF Len(a) > Len(b) THEN Len(a) ELSE Len(b)
      digit(i) == (BitAt(a, i) + BitAt(b, i) +
                     (IF CarryInto(a, b, carry, i) THEN 1 ELSE 0)) % 2
  IN [i \in 1..len |-> digit(i)] \o
       (IF CarryInto(a, b, carry, len + 1) THEN <<1>> ELSE <<>>)

\* bits times 2^k
ShiftLeft(bits, k) == [i \in 1..k |-> 0] \o bits

RECURSIVE ToNat(_)
ToNat(bits) == IF bits = <<>> THEN 0 ELSE Head(bits) + 2 * ToNat(Tail(bits))

\* the double nearest to bits * 2^exp (plus a nonzero rest below the last
\* digit when sticky), ties to the even mantissa
RoundToDouble(bits, exp, sticky) ==
  IF Len(bits) <= MantissaBits THEN [bits |-> bits, exp |-> exp]
  ELSE LET d == Len(bits) - MantissaBits
           kept == SubSeq(bits, d + 1, Len(bits))
           rest == sticky \/ \E i \in 1..d - 1 : bits[i] = 1
           up == bits[d] = 1 /\ (rest \/ kept[1] = 1)
       IN [bits |-> IF up THEN AddBits(kept, <<1>>, 0) ELSE kept, exp |-> exp + d]

\* correct / n in double arithmetic, for 0 < correct < n
Quotient(correct, n) ==
  LET z == LeadingZeros(correct, n)
      r == correct * Pow2(z)
  IN RoundToDouble(Reverse(Expand(r, n, MantissaBits + 1)),
                   0 - (z + MantissaBits + 1),
                   RemainderAfter(r, n, MantissaBits + 1) # 0)

\* x * 100 in double arithmetic: 100 = 64 + 32 + 4
Times100(x) ==
  RoundToDouble(AddBits(AddBits(ShiftLeft(x.bits, 6), ShiftLeft(x.bits, 5), 0),
                        ShiftLeft(x.bits, 2), 0),
                x.exp, FALSE)

\* Math.round(x) for a positive double below 2^53: the nearest integer, a
\* tie going up
MathRound(x) ==
  LET s == 0 - x.exp
  IN IF s <= 0 THEN ToNat(x.bits) * Pow2(0 - s)
     ELSE ToNat(SubSeq(x.bits, s + 1, Len(x.bits))) +
            (IF s <= Len(x.bits) THEN x.bits[s] ELSE 0)

\* Math.round((correct / n) * 100)
pctOf(correct, n) ==
  IF correct = 0 THEN 0
  ELSE IF correct = n THEN 100
  ELSE MathRound(Times100(Quotient(correct, n)))

\* 100 * correct / n rounded to the nearest integer, a tie going up
ExactPct(correct, n) == (200 * correct + n) \div (2 * n)

\* ------------------------------------------------------------------
\* The course page: lessons, the final test and its analysis
\* ------------------------------------------------------------------
\* analyze-test requests awaited at once
MaxAnalyses == 1

NotAnswered == Str("(not answered)")
AnalysisFailedMsg == "Could not generate AI analysis right now."

\* const qs = course.finalTest?.questions || []
qsOf(c) == IF IsArray(QuestionsOf(c)) THEN QuestionsOf(c).items ELSE <<>>

\* page === "course" && course, with and without inTest
CourseShown == page = "course" /\ course # Null
LessonView == CourseShown /\ ~session.inTest
TestView == CourseShown /\ session.inTest

\* u?.lessons?.length, or -1 for undefined; indices are zero-based
LessonCount(c, ui) ==
  IF ui >= 0 /\ ui < Len(UnitsOf(c)) /\ IsArray(OptGet(UnitsOf(c)[ui + 1], "lessons"))
  THEN Len(LessonsOfUnit(UnitsOf(c)[ui + 1])) ELSE -1

\* const lesson = unit?.lessons?.[lIdx] is defined
LessonShown ==
  /\ LessonView
  /\ session.lIdx >= 0
  /\ session.lIdx < LessonCount(course, session.uIdx)

\* every client variable but the test session
notSession ==
  <<user, allCourses, course, page, file, etxt, extracting, hPending, generating,
    remediating, gStatus, gErr, lastWrong, now, genPc, genCtx, focPc, focCtx,
    analyzing, aPending>>

\* a mutant of prev: the length of the previous unit is taken as an index
prevLengthAsIndex ==
  /\ LessonShown
  /\ UNCHANGED <<notSession, notClientVars>>
  /\ IF session.lIdx > 0
     THEN session' = [session EXCEPT !.lIdx = @ - 1]
     ELSE IF session.uIdx > 0
     THEN LET pu == session.uIdx - 1
              len == LessonCount(course, pu)
          IN session' = [session EXCEPT !.uIdx = pu,
                                        !.lIdx = IF len > 0 THEN len ELSE 1]
     ELSE UNCHANGED session

\* the Previous button (shown with a lesson, disabled on the first lesson of
\* the first unit, where the handler would change nothing)
prev ==
  /\ LessonShown
  /\ UNCHANGED <<notSession, notClientVars>>
  /\ IF session.lIdx > 0
     THEN session' = [session EXCEPT !.lIdx = @ - 1]
     ELSE IF session.uIdx > 0
     THEN LET pu == session.uIdx - 1
              len == LessonCount(course, pu)
          IN session' = [session EXCEPT !.uIdx = pu,
                                        !.lIdx = (IF len > 0 THEN len ELSE 1) - 1]
     ELSE UNCHANGED session

\* the Next button (shown with a lesson)
next ==
  /\ LessonShown
  /\ UNCHANGED <<notSession, notClientVars>>
  /\ LET len == LessonCount(course, session.uIdx)
     IN IF session.lIdx < (IF len < 0 THEN 1 ELSE len) - 1
        THEN session' = [session EXCEPT !.lIdx = @ + 1]
        ELSE IF session.uIdx < Len(UnitsOf(course)) - 1
        THEN session' = [session EXCEPT !.uIdx = @ + 1, !.lIdx = 0]
        ELSE session' = [session EXCEPT !.inTest = TRUE]

\* a unit of the sidebar is clicked
unitClick(ui) ==
  /\ LessonView
  /\ ui \in 0..Len(UnitsOf(course)) - 1
  /\ session' = [session EXCEPT !.uIdx = ui, !.lIdx = 0]
  /\ UNCHANGED <<notSession, notClientVars>>

\* a lesson of the sidebar is clicked: the lessons of the current unit are listed
lessonClick(li) ==
  /\ LessonView
  /\ li \in 0..LessonCount(course, session.uIdx) - 1
  /\ session' = [session EXCEPT !.lIdx = li]
  /\ UNCHANGED <<notSession, notClientVars>>

\* the Take Final Test button of the sidebar
TakeFinalTest ==
  /\ LessonView
  /\ session' = [session EXCEPT !.inTest = TRUE]
  /\ UNCHANGED <<notSession, notClientVars>>

\* the Back to Course button of the test
BackToCourse ==
  /\ TestView
  /\ session' = [session EXCEPT !.inTest = FALSE]
  /\ UNCHANGED <<notSession, notClientVars>>

\* option j (zero-based) of question i (one-based) is clicked:
\* setAns((p) => ({ ...p, [i]: j }))
selectAnswer(i, j) ==
  /\ TestView
  /\ ~session.submitted
  /\ i \in 1..Len(qsOf(course))
  /\ j \in 0..Len(OptionsOf(qsOf(course)[i])) - 1
  /\ session' = [session EXCEPT
                   !.ans = [k \in DOMAIN session.ans \cup {i} |->
                              IF k = i THEN j ELSE session.ans[k]]]
  /\ UNCHANGED <<notSession, notClientVars>>

\* q.options?.[k] for a zero-based k: undefined out of range
OptionAt(q, k) ==
  IF IsArray(Get(q, "options")) /\ k >= 0 /\ k < Len(OptionsOf(q))
  THEN OptionsOf(q)[k + 1] ELSE Undefined

\* ans[i] === q.correctAnswer for question i (one-based) of qs
AnsweredRight(qs, a, i) == i \in DOMAIN a /\ Num(a[i]) = AnswerOf(qs[i])

\* the record pushed for a question that was not answered right
WrongRecord(q, a, i) ==
  Obj(<<Mem("question", Get(q, "question")),
        Mem("yourAnswer",
            Nullish(IF i \in DOMAIN a THEN OptionAt(q, a[i]) ELSE Undefined,
                    NotAnswered)),
        Mem("correctAnswer",
            Nullish(IF AnswerOf(q).kind = "num" THEN OptionAt(q, AnswerOf(q).n)
                    ELSE Undefined,
                    Str("(missing)"))),
        Mem("explanation", Or(Get(q, "explanation"), Str("")))>>)

\* the records of the questions from i on that were not answered right, in
\* the order of the questions
WrongFrom(qs, a, i) ==
  LET missed == {k \in i..Len(qs) : ~AnsweredRight(qs, a, k)}
      nth(r) == CHOOSE k \in missed : Cardinality({m \in missed : m <= k}) = r
  IN [r \in 1..Cardinality(missed) |-> WrongRecord(qs[nth(r)], a, nth(r))]

\* setScore({ pct, correct, total: qs.length })
ScoreOf(qs, a) ==
  LET correct == Cardinality({i \in 1..Len(qs) : AnsweredRight(qs, a, i)})
  IN [pct |-> pctOf(correct, Len(qs)), correct |-> correct, total |-> Len(qs)]

\* the body submitTest() posts to analyze-test
AnalyzeRequest(c, score, wrong) ==
  Obj(<<Mem("model", Str("gpt-4.1")),
        Mem("courseTitle", Get(c, "courseTitle")),
        Mem("score", Obj(<<Mem("pct", Num(score.pct)), Mem("correct", Num(score.correct)),
                           Mem("total", Num(score.total))>>)),
        Mem("wrong", Arr(wrong))>>)

\* the analysis the backend returns for a request: a text about that course
\* and that score
AnalysisText(request) ==
  "analysis of " \o Get(request, "courseTitle").s \o ": " \o
    ToString(Get(Get(request, "score"), "correct").n) \o " of " \o
    ToString(Get(Get(request, "score"), "total").n)

\* answers of the backend to an analyze-test request
AnalysisResponses(request) ==
  { ResponseOk(Obj(<<Mem("text", Str(AnalysisText(request)))>>)),
    ResponseError(500, Obj(<<Mem("error", Str("Analysis failed"))>>)) }

\* a mutant of SubmitEnabled: the Submit Test button is never disabled
SubmitAlwaysEnabled == TestView /\ ~session.submitted

\* the Submit Test button is shown and not disabled:
\* disabled={Object.keys(ans).length < qs.length}
SubmitEnabled ==
  /\ TestView
  /\ ~session.submitted
  /\ ~(Cardinality(DOMAIN session.ans) < Len(qsOf(course)))

\* the Submit Test button is clicked: submitTest() up to its await
submitTest ==
  /\ SubmitEnabled
  /\ UNCHANGED <<user, allCourses, course, page, file, etxt, extracting, hPending,
                 generating, remediating, gStatus, gErr, now, genPc, genCtx, focPc, focCtx>>
  /\ UNCHANGED notClientVars
  /\ LET qs == qsOf(course)
         wrong == WrongFrom(qs, session.ans, 1)
         score == ScoreOf(qs, session.ans)
     IN IF qs = <<>>
        THEN UNCHANGED <<session, lastWrong, analyzing, aPending>>
        ELSE /\ session' = [session EXCEPT !.score = score, !.submitted = TRUE]
             /\ lastWrong' = wrong
             /\ IF wrong # <<>>
                THEN /\ Len(aPending) < MaxAnalyses
                     /\ analyzing' = TRUE
                     /\ aPending' = Append(aPending,
                                           [course |-> course,
                                            request |-> AnalyzeRequest(course, score, wrong)])
                ELSE UNCHANGED <<analyzing, aPending>>

\* a mutant of analyzeSettled: the flag is cleared on success only
analyzeSettledNoFinally(i, reply) ==
  /\ i \in 1..Len(aPending)
  /\ LET d == postJSON(reply)
     IN /\ session' = [session EXCEPT
                         !.analysis = IF d.ok THEN Or(Get(d.v, "text"), Str("")).s
                                      ELSE AnalysisFailedMsg]
        /\ analyzing' = IF d.ok THEN FALSE ELSE analyzing
  /\ aPending' = SubSeq(aPending, 1, i - 1) \o SubSeq(aPending, i + 1, Len(aPending))
  /\ UNCHANGED <<user, allCourses, course, page, file, etxt, extracting, hPending,
                 generating, remediating, gStatus, gErr, lastWrong, now, genPc, genCtx,
                 focPc, focCtx>>
  /\ UNCHANGED notClientVars

\* submitTest() after the analyze-test request of pending call i settled:
\* setAnalysis(d.text || "") or the catch block, then setAnalyzing(false)
analyzeSettled(i, reply) ==
  /\ i \in 1..Len(aPending)
  /\ LET d == postJSON(reply)
     IN session' = [session EXCEPT
                      !.analysis = IF d.ok THEN Or(Get(d.v, "text"), Str("")).s
                                   ELSE AnalysisFailedMsg]
  /\ analyzing' = FALSE
  /\ aPending' = SubSeq(aPending, 1, i - 1) \o SubSeq(aPending, i + 1, Len(aPending))
  /\ UNCHANGED <<user, allCourses, course, page, file, etxt, extracting, hPending,
                 generating, remediating, gStatus, gErr, lastWrong, now, genPc, genCtx,
                 focPc, focCtx>>
  /\ UNCHANGED notClientVars

\* ------------------------------------------------------------------
\* The client with saved courses
\* ------------------------------------------------------------------
LessonB ==
  Obj(<<Mem("id", Str("u1l2")), Mem("title", Str("Lesson B")),
        Mem("content", Str("second body")), Mem("keyPoints", Arr(<<>>))>>)

QuestionC ==
  Obj(<<Mem("id", Str("q2")), Mem("question", Str("question 2")),
        Mem("options", Arr(<<Str("e"), Str("f"), Str("g"), Str("h")>>)),
        Mem("correctAnswer", Num(0)), Mem("explanation", Str(""))>>)

\* a saved course of two questions
CourseB ==
  GeneratedCourse(
    normalizeCourseJSON(
      Obj(<<Mem("courseTitle", Str("Biology")),
            Mem("units", Arr(<<UnitA>>)),
            Mem("finalTest", Obj(<<Mem("questions", Arr(<<QuestionA, QuestionC>>))>>))>>),
      <<[i \in 1..OptionCount |-> i], [i \in 1..OptionCount |-> i]>>).out.v,
    0, Text("notes", 5000))

\* answers of the backend to generate-course and focused-course
CourseReturned ==
  ResponseOk(Obj(<<Mem("jsonText", StringOf(<<"p", "{", "T", "U", "}">>))>>))
ServerFailure ==
  ResponseError(500, Obj(<<Mem("error", Str("Model output was not valid JSON."))>>))
SessionResponses == {CourseReturned, ServerFailure}

\* a signed-in user with the saved courses on page p, course c loaded with
\* test session s, and nothing awaited
ClientStarts(saved, c, p, s) ==
  /\ apiKey = TRUE
  /\ ServerIdle
  /\ ParseIdle
  /\ NormIdle
  /\ user \in Emails
  /\ allCourses = [e \in Emails |-> saved]
  /\ course = c
  /\ page = p
  /\ file = "none"
  /\ etxt = Str("")
  /\ extracting = FALSE
  /\ hPending = <<>>
  /\ generating = FALSE
  /\ remediating = FALSE
  /\ gStatus = ""
  /\ gErr = ""
  /\ session = s
  /\ lastWrong = <<>>
  /\ now = 1
  /\ genPc = "idle"
  /\ genCtx = Null
  /\ focPc = "idle"
  /\ focCtx = Null
  /\ analyzing = FALSE
  /\ aPending = <<>>

\* ------------------------------------------------------------------
\* Studying a saved course: the lesson view
\* ------------------------------------------------------------------
\* most units of a saved course and most lessons of a unit
MaxUnits == 3
MaxLessons == 2

\* a unit as the model returns it, with k lessons (without the key for none)
UnitOf(k) ==
  IF k = 0 THEN UnitB
  ELSE Obj(<<Mem("title", Str("Unit")),
             Mem("lessons", Arr([li \in 1..k |-> IF li = 1 THEN LessonA ELSE LessonB]))>>)

\* the lesson counts of the units of a course, unit by unit
Shapes == UNION {[1..n -> 0..MaxLessons] : n \in 1..MaxUnits}

\* the saved course whose units have the lesson counts of shape
StudyCourse(shape) ==
  GeneratedCourse(
    normalizeCourseJSON(
      Obj(<<Mem("courseTitle", Str("Chemistry")),
            Mem("units", Arr([ui \in 1..Len(shape) |-> UnitOf(shape[ui])])),
            Mem("finalTest", Obj(<<Mem("questions", Arr(<<QuestionA>>))>>))>>),
      <<[i \in 1..OptionCount |-> i]>>).out.v,
    0, Text("notes", 5000))

StudyInit ==
  \E shape \in Shapes :
    ClientStarts(<<StudyCourse(shape)>>, Null, "mycourses", SessionReset)

StudyNext ==
  \/ prev
  \/ next
  \/ \E ui \in 0..MaxUnits - 1 : unitClick(ui)
  \/ \E li \in 0..MaxLessons - 1 : lessonClick(li)
  \/ TakeFinalTest
  \/ BackToCourse
  \/ OpenSavedCourse(1)
  \/ Navigate("mycourses")

StudySpec == StudyInit /\ [][StudyNext]_vars

\* const isFirst = uIdx === 0 && lIdx === 0
isFirst == session.uIdx = 0 /\ session.lIdx = 0

\* const isLast = uIdx === course.units.length - 1 &&
\*                lIdx === (unit?.lessons?.length ?? 1) - 1
isLast ==
  LET len == LessonCount(course, session.uIdx)
  IN /\ session.uIdx = Len(UnitsOf(course)) - 1
     /\ session.lIdx = (IF len < 0 THEN 1 ELSE len) - 1

\* max(0, lessons(uIdx).length - 1)
LastLessonIndex(c, ui) ==
  IF LessonCount(c, ui) > 1 THEN LessonCount(c, ui) - 1 ELSE 0

IndicesInRange ==
  (course # Null /\ Len(UnitsOf(course)) >= 1) =>
    /\ 0 <= session.uIdx /\ session.uIdx < Len(UnitsOf(course))
    /\ 0 <= session.lIdx /\ session.lIdx <= LastLessonIndex(course, session.uIdx)

\* C29: for a course with at least one unit, after any sequence of next,
\* prev and sidebar unit and lesson clicks, 0 <= uIdx < units.length and
\* 0 <= lIdx <= max(0, lessons(uIdx).length - 1); next on the last lesson of
\* the last unit enters the test and keeps the indices, and prev on the
\* first lesson of the first unit changes nothing
C29_IndicesStayInRange ==
  /\ []IndicesInRange
  /\ [][/\ (next /\ isLast) => session' = [session EXCEPT !.inTest = TRUE]
        /\ (prev /\ isFirst) => UNCHANGED session]_vars

\* the second lesson of a later unit is shown in a course that also has a
\* unit without lessons
C29_Witness ==
  /\ LessonShown
  /\ session.uIdx > 0
  /\ session.lIdx > 0
  /\ \E ui \in 0..Len(UnitsOf(course)) - 1 : LessonCount(course, ui) = 0

\* ------------------------------------------------------------------
\* Replacing the current course
\* ------------------------------------------------------------------
\* a step that loads a course: the course changes or the course page is
\* entered (go("course") follows setCourse and nothing else)
CourseLoaded == course' # course \/ (page' = "course" /\ page # "course")

\* C25: whenever the current course is replaced (successful generate,
\* successful generateFocusedCourse, or opening a saved course), the test
\* session is reset in the same step: uIdx = 0, lIdx = 0, inTest false, ans
\* empty, submitted false, score null, analysis empty and lastWrong empty
C25_ReplacementResetsSession ==
  [][CourseLoaded => (session' = SessionReset /\ lastWrong' = <<>>)]_vars

\* a focused review course made from the saved course, whose test was
\* submitted with a wrong answer, is the current course with a fresh session
C25_Witness ==
  /\ user # "none"
  /\ Len(allCourses[user]) > 1
  /\ allCourses[user][1] = CourseA
  /\ course = allCourses[user][Len(allCourses[user])]
  /\ Get(course, "courseTitle") = Str("Algebra (Focused Review)")
  /\ page = "course"
  /\ session = SessionReset
  /\ lastWrong = <<>>

\* ------------------------------------------------------------------
\* Taking the tests of saved courses
\* ------------------------------------------------------------------
\* a saved course whose final test has no questions
CourseNoTest ==
  GeneratedCourse(
    normalizeCourseJSON(JsonParse(<<"{", "T", "U", "}">>).v, <<>>).out.v,
    0, Text("syllabus", 5000))

SessionInit ==
  ClientStarts(<<CourseA, CourseB, CourseNoTest>>, Null, "mycourses", SessionReset)

SessionNext ==
  \/ TakeFinalTest
  \/ \E i \in 1..Len(qsOf(course)), j \in 0..OptionCount - 1 : selectAnswer(i, j)
  \/ submitTest
  \/ \E i \in 1..Len(aPending) :
       \E reply \in AnalysisResponses(aPending[i].request) : analyzeSettled(i, reply)
  \/ \E i \in 1..Len(allCourses[user]) : OpenSavedCourse(i)
  \/ Navigate("mycourses")

SessionSpec == SessionInit /\ [][SessionNext]_vars

\* the analysis shown is empty, the failure message, or the text the backend
\* returns for the submitted test of the current course
AnalysisOfCurrentTest ==
  session.analysis # "" =>
    /\ course # Null
    /\ session.submitted
    /\ session.analysis \in
         {AnalysisFailedMsg,
          AnalysisText(AnalyzeRequest(course, session.score, lastWrong))}

\* C24: the analysis text held by the client always pertains to the current
\* course's latest submitted test: a response to an analyze-test request that
\* arrives after the current course was replaced does not set the analysis
\* of the newly loaded course
C24_AnalysisOfCurrentCourse == AnalysisOfCurrentTest

\* the records of a list of wrong answers that carry the placeholder
Unanswered(wrong) ==
  {i \in 1..Len(wrong) : Get(wrong[i], "yourAnswer") = NotAnswered}

\* the wrong-answer lists the client holds or has sent
WrongLists ==
  {lastWrong} \cup {Get(aPending[i].request, "wrong").items : i \in 1..Len(aPending)}
    \cup (IF focPc = "focused" THEN {Get(focCtx.request, "wrongAnswers").items} ELSE {})

\* a step that submits the test
Submits == ~session.submitted /\ session'.submitted

ReviewInit == ClientStarts(<<CourseA>>, Null, "mycourses", SessionReset)

ReviewNext ==
  \/ TakeFinalTest
  \/ \E i \in 1..Len(qsOf(course)), j \in 0..OptionCount - 1 : selectAnswer(i, j)
  \/ submitTest
  \/ \E i \in 1..Len(aPending) :
       \E reply \in AnalysisResponses(aPending[i].request) : analyzeSettled(i, reply)
  \/ generateFocusedCourse
  \/ \E reply \in SessionResponses : generateFocusedCourseSettled(reply)
  \/ \E i \in 1..Len(allCourses[user]) : OpenSavedCourse(i)
  \/ Navigate("mycourses")

ReviewSpec == ReviewInit /\ [][ReviewNext]_vars

\* a step that sends a focused-course request
SendsFocused == focPc = "idle" /\ focPc' = "focused"

\* a step in which a focused-course request ends with a new course
FocusedSucceeds == focPc = "focused" /\ focPc' = "idle" /\ now' = now + 1

\* the request awaited passes the checks of POST /api/ai/focused-course
FocusedRequestAccepted ==
  focPc = "focused" =>
    /\ focCtx.course # Null
    /\ Truthy(Get(focCtx.request, "originalCourse"))
    /\ ~wrongAnswersInvalid(Get(focCtx.request, "wrongAnswers"))

\* C30: the client sends a focused-course request only when a course is
\* loaded and the last submitted test left at least one wrong answer, so a
\* client request never meets the server's rejection of empty wrongAnswers;
\* after a successful focused course lastWrong is empty, and it becomes
\* non-empty (so that a request can be sent) only when a test is submitted
C30_FocusedNeedsWrongAnswers ==
  /\ []FocusedRequestAccepted
  /\ [](lastWrong = <<>> => ~FocusedEnabled)
  /\ [][/\ SendsFocused => (course # Null /\ session.submitted /\ lastWrong # <<>>)
        /\ FocusedSucceeds => lastWrong' = <<>>
        /\ (lastWrong = <<>> /\ lastWrong' # <<>>) => Submits]_vars

\* a focused review course was made and saved, and a test submitted after
\* that left a wrong answer again
C30_Witness ==
  /\ now > 1
  /\ Len(allCourses[user]) > 1
  /\ session.submitted
  /\ lastWrong # <<>>
  /\ FocusedEnabled

\* ------------------------------------------------------------------
\* The score of a submitted test
\* ------------------------------------------------------------------
\* most questions of a scored test
MaxScored == 40

\* a saved course whose final test has n questions
ScoredCourse(n) ==
  GeneratedCourse(
    normalizeCourseJSON(
      Obj(<<Mem("courseTitle", Str("Quiz")),
            Mem("units", Arr(<<UnitA>>)),
            Mem("finalTest", Obj(<<Mem("questions", Arr([i \in 1..n |-> QuestionA]))>>))>>),
      [i \in 1..n |-> [j \in 1..OptionCount |-> j]]).out.v,
    0, Text("notes", 5000))

\* the test of n questions is shown with every question answered, the
\* first c of them right
ScoreInit ==
  \E n \in 1..MaxScored :
    \E c \in 0..n :
      ClientStarts(<<ScoredCourse(n)>>, ScoredCourse(n), "course",
                   [SessionReset EXCEPT
                      !.inTest = TRUE,
                      !.ans = [i \in 1..n |->
                                 IF i <= c THEN AnswerOf(QuestionA).n ELSE 0]])

ScoreNext ==
  \/ submitTest
  \/ \E i \in 1..Len(aPending) :
       \E reply \in AnalysisResponses(aPending[i].request) : analyzeSettled(i, reply)

ScoreSpec == ScoreInit /\ [][ScoreNext]_vars

\* C26: after submitTest on a course with n >= 1 questions, score.total = n,
\* score.correct + lastWrong.length = n, score.pct = round(100 * correct / n)
\* lies in 0..100, and submitted implies that score is not null
C26_ScoreOfSubmittedTest ==
  session.submitted =>
    /\ session.score # Null
    /\ session.score.total = Len(qsOf(course))
    /\ session.score.correct + Len(lastWrong) = Len(qsOf(course))
    /\ session.score.pct = ExactPct(session.score.correct, session.score.total)
    /\ session.score.pct \in 0..100

\* ------------------------------------------------------------------
\* The busy flags: every awaited call returns
\* ------------------------------------------------------------------
\* the test of the saved course is shown with a wrong answer selected
BusyInit ==
  ClientStarts(<<CourseA>>, CourseA, "course",
               [SessionReset EXCEPT !.inTest = TRUE, !.ans = <<0>>])

\* the awaited calls return
ExtractionReturns ==
  \E i \in 1..Len(hPending), outcome \in ExtractOutcomes : handleFileSettled(i, outcome)
OcrReturns == \E reply \in OcrResponses : generateOcrSettled(reply)
GenerateReturns ==
  generateSettled(ServerFailure) \/ generateSettled(CourseReturned)
FocusedReturns ==
  generateFocusedCourseSettled(ServerFailure) \/ generateFocusedCourseSettled(CourseReturned)
AnalysisReturns ==
  \E i \in 1..Len(aPending) :
    \E reply \in AnalysisResponses(aPending[i].request) : analyzeSettled(i, reply)

BusyNext ==
  \/ submitTest
  \/ AnalysisReturns
  \/ generateFocusedCourse
  \/ FocusedReturns
  \/ Navigate("create")
  \/ \E ext \in FileExts : handleFile(ext)
  \/ ExtractionReturns
  \/ generate
  \/ OcrReturns
  \/ GenerateReturns

\* a promise that is awaited settles once the call returns, and its
\* continuation runs
BusySpec ==
  /\ BusyInit
  /\ [][BusyNext]_vars
  /\ WF_vars(ExtractionReturns)
  /\ WF_vars(OcrReturns)
  /\ WF_vars(GenerateReturns)
  /\ WF_vars(FocusedReturns)
  /\ WF_vars(AnalysisReturns)

\* the buttons are rendered
GenerateShown == page = "create"
FocusedShown ==
  /\ page = "course" /\ course # Null
  /\ session.inTest /\ session.submitted /\ lastWrong # <<>>

\* C28 as stated: the generate and focused-course buttons are disabled
\* exactly while their flag is set
C28_DisabledExactlyWhileBusy ==
  /\ GenerateShown => (~GenerateEnabled <=> generating)
  /\ FocusedShown => (~FocusedEnabled <=> remediating)

\* a request of generate() or generateFocusedCourse() is awaited exactly
\* while the flag is set, and the button is disabled then
OneRequestOfEachKind ==
  /\ generating <=> genPc # "idle"
  /\ remediating <=> focPc # "idle"
  /\ generating => ~GenerateEnabled
  /\ remediating => ~FocusedEnabled

\* C28: every run of generate, generateFocusedCourse, submitTest's analysis
\* and handleFile's extraction that sets its busy flag eventually clears it,
\* on success and on failure alike, provided the awaited call returns; the
\* generate and focused-course buttons are disabled whenever their flag is
\* set (Generate also while no file is chosen), so at most one request of
\* each kind is awaited; "a flag that is set is cleared later" is written
\* []<>~flag, which is flag ~> ~flag
C28_BusyFlagsClear ==
  /\ []<>~generating
  /\ []<>~remediating
  /\ []<>~analyzing
  /\ []<>~extracting
  /\ []OneRequestOfEachKind

\* the analysis and the focused-course request are awaited at once
C28_Witness == analyzing /\ remediating /\ aPending # <<>> /\ focPc = "focused"
====
